---- MODULE Spec2Model ----
(***************************************************************************)
(* Event-driven trading backbone of gordon-gekko: the bounded multi-topic  *)
(* event bus, the dispatcher's select loop with its shutdown protocol, the *)
(* core bridges, the WASM strategy sandbox, the frame codec, and the data  *)
(* pipeline: order book, WebSocket worker, distributor, exchange stream    *)
(* adapter and the Coinbase market stream worker.                          *)
(***************************************************************************)
EXTENDS Integers, Sequences, FiniteSets, TLC

VARIABLES
    queue,          \* per-topic bounded FIFO storage of the bus
    bus_alive,      \* the EventBus and the receivers handed out by it still exist
    next_seq,       \* GLOBAL_SEQUENCE (util/sequence.rs), also the source of fresh ids
    p_pc,           \* per external producer: "idle" or "waiting" inside publish
    pend,           \* per external producer: the publish call it is waiting in
    last_pub,       \* the most recently returned publish call
    accepted,       \* every event a publish call has put on its topic
    handlers,       \* topics that have a handler registered (Handlers)
    bridge_mode,    \* PublishMode given to the bridges at construction
    disp_pc,        \* position of EventDispatcher::run
    disp_err,       \* the error run returned, if any
    sd_enabled,     \* select!: value of the precondition is_shutdown() of this iteration
    notified_at,    \* select!: notify_waiters calls seen when notified() was created
    cur,            \* the event handed to the running handler
    cur_topic,      \* the topic whose branch was selected
    out_event,      \* the follow-up event a bridge is publishing
    disp_log,       \* events the dispatcher received, in order
    shutdown_flag,  \* Arc<AtomicBool> shared with the controller
    notify_calls,   \* number of notify_waiters() calls on the shared Notify
    shut_pc,        \* per shutdown caller: position inside shutdown()
    ext_log,        \* per independent receiver: the events it received, in order
    portfolio,      \* executions applied through update_from_execution, in order
    om_orders,      \* orders the order manager created, in order
    sb_signals,     \* StrategyEnvState.signals
    sb_logs,        \* StrategyEnvState.logs
    sb_pc,          \* position of WasmStrategyInstance::evaluate
    sb_emitted,     \* signals the module emitted during the current call
    sb_stale,       \* signals emitted during calls that failed with Timeout
    sb_results,     \* results returned by evaluate, in order
    sb_next,        \* next fresh label of a host call
    sb_cause,       \* how the most recent evaluate call ended
    sb_todo,        \* payloads StrategyEventBridge::publish has still to publish
    signal_sequence, \* SIGNAL_SEQUENCE (event_bridge.rs)
    emitted,        \* metadata built so far, in the order of emission
    closures,       \* topics whose registered handler is a ClosureHandler
    calls,          \* collaborator calls made for the event being handled, with outcome
    h_log,          \* handler invocations that returned, in order, with their result
    r_pc,           \* per independent receiver: "idle" or "waiting" inside recv_timeout
    r_pend,         \* per independent receiver: the recv_timeout call it is waiting in
    last_recv,      \* the most recently returned recv_timeout call
    md_pool,        \* metadata values built by new() and child(), with their origin
    fr_pc,          \* position of the frame round trip
    fr_event,       \* the typed event handed to to_frame
    fr_frame,       \* the EventFrame at hand
    fr_decoded,     \* the result of from_frame
    fr_reenc,       \* the payload bytes of the decoded event encoded again
    ob_bids,        \* LevelTwoBook.bids: the map price -> quantity
    ob_asks,        \* LevelTwoBook.asks
    ob_instrument,  \* LevelTwoBook.instrument
    ob_depth,       \* LevelTwoBook.depth
    ob_upd,         \* the update handed to the most recent apply
    ob_ret,         \* the MarketPayload the most recent apply returned
    ob_last,        \* per side and price: the quantity of the last update, if any
    bk_cfg,         \* the BackoffConfig compute_delay is called on
    bk_delays,      \* the delays computed for attempts 1, 2, ..., in order
    ws_cfg,         \* the WebSocketConfig of the worker
    ws_pc,          \* position of run_stream
    ws_attempt,     \* run_stream: attempt
    ws_lf_age,      \* last_frame.elapsed()
    ws_hb_age,      \* time since the sleep(hb.interval) of this select! was created
    ws_idle,        \* time since a frame last arrived from upstream on this connection
    ws_rx,          \* the consumer still holds the receiver spawn_stream returned
    ws_sleep_left,  \* what is left of sleep(delay)
    ws_in,          \* the frames read from upstream on this connection, in order
    ws_out,         \* the sends of subscription frames and Pongs on this connection
    ws_events,      \* events the consumer got for the frames read on this connection
    dist_mode,      \* Distributor.publish_mode
    dist_in,        \* the events in the channel drain reads from
    dist_open,      \* a sender of that channel still exists
    dist_fed,       \* events sent into that channel so far
    dist_pc,        \* position of Distributor::drain
    dist_cur,       \* the event drain is dispatching
    dist_log,       \* the dispatch calls of drain that returned, with their result
    sh_exchange,    \* StreamMessageHandler.exchange
    sh_mode,        \* MarketEventEmitter.mode
    sh_pc,          \* position of StreamMessageHandler::handle
    sh_cur,         \* the handle call that is waiting inside publish
    sh_log,         \* the handle calls that returned: message, publish calls, result
    cb_pc,          \* position of run_coinbase_market_stream
    cb_attempt,     \* run_coinbase_market_stream: attempt
    cb_rx,          \* the subscriber still holds the receiver of the stream
    cb_connects,    \* connect_async calls made so far
    cb_since        \* what the worker did since its last connect_async call

busVars  == <<queue, bus_alive, next_seq, emitted, p_pc, pend, last_pub, accepted>>
dispVars == <<handlers, bridge_mode, closures, calls, disp_pc, disp_err, sd_enabled,
              notified_at, cur, cur_topic, out_event, disp_log, h_log>>
shutVars == <<shutdown_flag, notify_calls, shut_pc>>
sinkVars == <<ext_log, portfolio, om_orders>>
sbVars   == <<sb_signals, sb_logs, sb_pc, sb_emitted, sb_stale, sb_results,
              sb_next, sb_cause, sb_todo, signal_sequence>>
rxVars   == <<r_pc, r_pend, last_recv>>
frVars   == <<fr_pc, fr_event, fr_frame, fr_decoded, fr_reenc>>
obVars   == <<ob_bids, ob_asks, ob_instrument, ob_depth, ob_upd, ob_ret, ob_last>>
ioVars   == <<ws_in, ws_out, ws_events>>
wsVars   == <<bk_cfg, bk_delays, ws_cfg, ws_pc, ws_attempt, ws_lf_age, ws_hb_age,
              ws_idle, ws_rx, ws_sleep_left, ioVars>>
distVars == <<dist_mode, dist_in, dist_open, dist_fed, dist_pc, dist_cur, dist_log>>
shVars   == <<sh_exchange, sh_mode, sh_pc, sh_cur, sh_log>>
cbVars   == <<cb_pc, cb_attempt, cb_rx, cb_connects, cb_since>>
feedVars == <<distVars, shVars, cbVars>>
dpVars   == <<obVars, wsVars, feedVars>>
xVars    == <<rxVars, md_pool, frVars, dpVars>>
vars     == <<busVars, dispVars, shutVars, sinkVars, sbVars, xVars>>

----------------------------------------------------------------------------
(* Bounds *)

\* publish calls of the producer beside a dispatcher
MaxSeq == 3
\* publish calls of the producers of the bus alone
MaxBusSeq == 4
\* capacity C_k of every topic
Capacity == 2
\* evaluate calls per behaviour of the sandbox
MaxEvals == 3
\* emit_signal calls per evaluate call
MaxEmit == 2
\* prices of the order book updates: 1..MaxPrice
MaxPrice == 3
\* quantities of the order book updates: 0..MaxQty
MaxQty == 2
\* attempts compute_delay is called for, and consecutive failed connection attempts
MaxAttempt == 4
\* metadata values built by new() and child()
MaxMeta == 4
\* events sent into the channel the distributor drains
MaxFeed == 3
\* data and Ping frames read on one connection
MaxFrames == 2
\* handle calls of the stream message handler
MaxStream == 3
\* connect_async calls of the Coinbase market stream worker
MaxConnects == 6

----------------------------------------------------------------------------
(* Data model *)

Topics == {"market", "signal", "order", "execution", "risk"}

Producers == {"p1", "p2"}

Receivers == {"r1", "r2"}

ShutdownCallers == {"dispatcher", "controller"}

Durations == {5}

Blocking == [m |-> "Blocking", d |-> 0]
Try == [m |-> "Try", d |-> 0]
TimeoutMode(D) == [m |-> "Timeout", d |-> D]

PublishMode == {Blocking, Try} \cup {TimeoutMode(D) : D \in Durations}

Priority == {"Low", "Normal", "High", "Critical"}

PriorityRank(p) ==
    CASE p = "Low" -> 0
      [] p = "Normal" -> 1
      [] p = "High" -> 2
      [] p = "Critical" -> 3

\* priorities the producers of a topic give their events
InputPriority(t) == IF t = "risk" THEN {"Critical"} ELSE {"Normal"}

NoBody == [symbol |-> "", quantity |-> 0, limit_price |-> 0]

SignalBodies ==
    { [symbol |-> "BTC-USD", quantity |-> 1, limit_price |-> 30000],
      [symbol |-> "ETH-USD", quantity |-> 2, limit_price |-> 0] }

NoEvent ==
    [seq |-> 0, corr |-> 0, span |-> 0, parent |-> 0, prio |-> "Normal",
     src |-> "", kind |-> "", body |-> NoBody]

\* EventMetadata::with_parent: fresh correlation and span, the next sequence
EventMetadata_new(source, priority, n) ==
    [seq |-> n, corr |-> n, span |-> n, parent |-> 0, prio |-> priority,
     src |-> source]

\* mutant: the child starts a correlation of its own
EventMetadata_child_fresh(m, source, priority, n) ==
    [seq |-> n, corr |-> n, span |-> n, parent |-> m.span,
     prio |-> priority, src |-> source]

\* EventMetadata::child: same correlation, fresh span, parent = own span
EventMetadata_child(m, source, priority, n) ==
    [seq |-> n, corr |-> m.corr, span |-> n, parent |-> m.span,
     prio |-> priority, src |-> source]

\* the record of one emission: the sequence number the event carries and its source
Emission(e) == [seq |-> e.seq, src |-> e.src]

Event(meta, kind, body) ==
    [seq |-> meta.seq, corr |-> meta.corr, span |-> meta.span,
     parent |-> meta.parent, prio |-> meta.prio, src |-> meta.src,
     kind |-> kind, body |-> body]

----------------------------------------------------------------------------
(* Errors (error.rs) *)

Ok == [kind |-> "Ok", msg |-> "", dur |-> 0]
ChannelSend(msg) == [kind |-> "ChannelSend", msg |-> msg, dur |-> 0]
Timeout(D) == [kind |-> "Timeout", msg |-> "", dur |-> D]
Upstream(msg) == [kind |-> "Upstream", msg |-> msg, dur |-> 0]

from_send_error(error) == ChannelSend("sending on a disconnected channel")

\* mutant: the two variants of TrySendError exchanged
from_try_send_error_swapped(error) ==
    CASE error = "Full" -> ChannelSend("channel disconnected")
      [] error = "Disconnected" -> ChannelSend("channel full")

from_try_send_error(error) ==
    CASE error = "Full" -> ChannelSend("channel full")
      [] error = "Disconnected" -> ChannelSend("channel disconnected")

\* mutant: an expired wait reported as a disconnected channel
from_send_timeout_error_lost(error, timeout) ==
    ChannelSend("channel disconnected")

from_send_timeout_error(error, timeout) ==
    CASE error = "Timeout" -> Timeout(timeout)
      [] error = "Disconnected" -> ChannelSend("channel disconnected")

ChannelReceive(msg) == [kind |-> "ChannelReceive", msg |-> msg, dur |-> 0]

\* Duration::ZERO
ZERO == 0

from_recv_timeout(error) ==
    CASE error = "Timeout" -> Timeout(ZERO)
      [] error = "Disconnected" -> ChannelReceive("channel disconnected")

----------------------------------------------------------------------------
(* Bounded channel set *)

Done == {"done_ok", "done_err"}

\* positions of a dispatcher that exists and has not returned from run
Running == {"init", "select", "waiting", "handling", "publishing"}

\* some receiver of the topic exists: the bus's own, or the dispatcher's
ReceiversLive == bus_alive \/ disp_pc \in Running

\* mutant: one slot more than the capacity
IsFull_late(q) == Len(q) > Capacity

IsFull(q) == Len(q) >= Capacity

\* mutant: one pool of slots for all topics
SendAttempt_shared(q) ==
    IF ~ReceiversLive THEN "Disconnected"
    ELSE IF \E t \in Topics : IsFull(queue[t]) THEN "Full"
    ELSE "Sent"

\* what one send attempt on a topic's queue yields: "Sent", "Full", "Disconnected"
SendAttempt(q) ==
    IF ~ReceiversLive THEN "Disconnected"
    ELSE IF IsFull(q) THEN "Full"
    ELSE "Sent"

\* mutant: a stack instead of a queue
Enqueue_front(q, e) == <<e>> \o q

Enqueue(q, e) == Append(q, e)

\* the error publish returns for a failed attempt in the given mode
PublishError(mode, failure) ==
    CASE mode.m = "Blocking" -> from_send_error(failure)
      [] mode.m = "Try" -> from_try_send_error(failure)
      [] mode.m = "Timeout" -> from_send_timeout_error(failure, mode.d)

PubRecord(by, t, mode, e, result) ==
    [by |-> by, topic |-> t, mode |-> mode, ev |-> e, result |-> result]

NoPub == PubRecord("", "", Try, NoEvent, Ok)


Wait == [kind |-> "Wait", msg |-> "", dur |-> 0]

\* EventSender::publish up to its first return or suspension: Ok, an error, or Wait
EventSender_publish(t, mode) ==
    LET a == SendAttempt(queue[t])
    IN  IF a = "Sent" THEN Ok
        ELSE IF a = "Disconnected" THEN PublishError(mode, "Disconnected")
        ELSE IF mode.m = "Try" THEN PublishError(mode, "Full")
        ELSE Wait

----------------------------------------------------------------------------
(* Values of the receive calls, the metadata pool and the frames *)

RecvRecord(by, t, D, result) == [by |-> by, topic |-> t, dur |-> D, result |-> result]

NoRecv == RecvRecord("", "", 0, Ok)

NoMeta == EventMetadata_new("", "Normal", 0)

\* a payload value: its first fixed-width field (the variant index of an enum
\* payload) and its string-to-string map, a set of <<key, value>> pairs
Payload(head, tags) == [head |-> head, tags |-> tags]

NoPayload == Payload(0, {})

\* a typed event (MarketEvent .. RiskEvent): metadata and payload
TypedEvent(kind, meta, payload) == [kind |-> kind, meta |-> meta, payload |-> payload]

NoTyped == TypedEvent("", NoMeta, NoPayload)

\* EventFrame::from_parts
EventFrame_from_parts(kind, meta, bytes) ==
    [kind |-> kind, meta |-> meta, payload |-> bytes]

NoFrame == EventFrame_from_parts("", NoMeta, <<>>)

\* the Result of X::from_frame
Decoded(res, expected, actual, event) ==
    [res |-> res, expected |-> expected, actual |-> actual, event |-> event]

NoDecoded == Decoded("", "", "", NoTyped)

RecvIdle ==
    /\ r_pc = [r \in Receivers |-> "idle"]
    /\ r_pend = [r \in Receivers |-> NoRecv]
    /\ last_recv = NoRecv

MetaIdle == md_pool = <<>>

\* Option::None of best()
None == <<>>

\* depth_hint of OrderBookUpdate::new
DepthHint == 64

Sides == {"Buy", "Sell"}
Prices == 1..MaxPrice
Quantities == 0..MaxQty
Pairs == {"BTC-USD", "ETH-USD"}
UpdateSequences == {7, 9}

\* OrderBookUpdate::new(pair, side, price, quantity, sequence)
OrderBookUpdate_new(pair, side, price, quantity, sequence) ==
    [pair |-> pair, side |-> side, price |-> price, quantity |-> quantity,
     sequence |-> sequence, depth_hint |-> DepthHint]

NoUpdate == OrderBookUpdate_new("", "", 0, 0, 0)

\* MarketPayload::OrderBookDelta { pair, bid_updates, ask_updates, sequence }
OrderBookDelta(pair, bid_updates, ask_updates, sequence) ==
    [pair |-> pair, bid_updates |-> bid_updates, ask_updates |-> ask_updates,
     sequence |-> sequence]

NoDelta == OrderBookDelta("", <<>>, <<>>, 0)

\* no update has been seen for the level
Unseen == 0 - 1

\* OrderBookSide::default(): the empty map
EmptyBookSide == [p \in {} |-> 0]

\* LevelTwoBook::default()
BookIdle ==
    /\ ob_bids = EmptyBookSide
    /\ ob_asks = EmptyBookSide
    /\ ob_instrument = ""
    /\ ob_depth = 0
    /\ ob_upd = NoUpdate
    /\ ob_ret = NoDelta
    /\ ob_last = [sd \in Sides |-> [p \in Prices |-> Unseen]]

\* Option::None of BackoffConfig.jitter and of WebSocketConfig.heartbeat
Absent == 0 - 1

\* BackoffConfig { initial, max, multiplier, jitter }, durations in milliseconds
BackoffConfig(initial, max, multiplier, jitter) ==
    [initial |-> initial, max |-> max, multiplier |-> multiplier, jitter |-> jitter]

NoBackoff == BackoffConfig(0, 0, 0, Absent)

\* WebSocketConfig { heartbeat, backoff, read_timeout }; heartbeat is the
\* interval of the HeartbeatConfig, or Absent
WebSocketConfig(heartbeat, backoff, read_timeout) ==
    [heartbeat |-> heartbeat, backoff |-> backoff, read_timeout |-> read_timeout]

NoWebSocket == WebSocketConfig(Absent, NoBackoff, 0)

\* no worker was spawned and compute_delay is not being exercised
WsIdle ==
    /\ bk_cfg = NoBackoff
    /\ bk_delays = <<>>
    /\ ws_cfg = NoWebSocket
    /\ ws_pc = "none"
    /\ ws_attempt = 0
    /\ ws_lf_age = 0
    /\ ws_hb_age = 0
    /\ ws_idle = 0
    /\ ws_rx = FALSE
    /\ ws_sleep_left = 0
    /\ ws_in = <<>>
    /\ ws_out = <<>>
    /\ ws_events = <<>>

\* the distributor has not been started
DistIdle ==
    /\ dist_mode = Blocking
    /\ dist_in = <<>>
    /\ dist_open = FALSE
    /\ dist_fed = 0
    /\ dist_pc = "none"
    /\ dist_cur = NoEvent
    /\ dist_log = <<>>

\* no stream message handler was built
StreamIdle ==
    /\ sh_exchange = ""
    /\ sh_mode = Blocking
    /\ sh_pc = "none"
    /\ sh_cur = <<>>
    /\ sh_log = <<>>

\* no Coinbase market stream was started
CoinbaseIdle ==
    /\ cb_pc = "none"
    /\ cb_attempt = 0
    /\ cb_rx = FALSE
    /\ cb_connects = 0
    /\ cb_since = <<>>

FeedIdle == DistIdle /\ StreamIdle /\ CoinbaseIdle

PipelineIdle == BookIdle /\ WsIdle /\ FeedIdle

FrameIdle ==
    /\ fr_pc = "idle"
    /\ fr_event = NoTyped
    /\ fr_frame = NoFrame
    /\ fr_decoded = NoDecoded
    /\ fr_reenc = <<>>

----------------------------------------------------------------------------
(* Initial state *)

CoreBridges == {"signal", "order", "execution", "risk"}

SandboxIdle ==
    /\ sb_signals = <<>>
    /\ sb_logs = <<>>
    /\ sb_pc = "idle"
    /\ sb_emitted = <<>>
    /\ sb_stale = {}
    /\ sb_results = <<>>
    /\ sb_next = 1
    /\ sb_cause = ""
    /\ sb_todo = <<>>
    /\ signal_sequence = 1

BusIdle ==
    /\ queue = [t \in Topics |-> <<>>]
    /\ bus_alive = TRUE
    /\ next_seq = 1
    /\ emitted = <<>>
    /\ h_log = <<>>
    /\ calls = <<>>
    /\ p_pc = [p \in Producers |-> "idle"]
    /\ pend = [p \in Producers |-> NoPub]
    /\ last_pub = NoPub
    /\ accepted = {}
    /\ disp_err = Ok
    /\ sd_enabled = FALSE
    /\ notified_at = 0
    /\ cur = NoEvent
    /\ cur_topic = ""
    /\ out_event = NoEvent
    /\ disp_log = <<>>
    /\ shutdown_flag = FALSE
    /\ notify_calls = 0
    /\ shut_pc = [c \in ShutdownCallers |-> "idle"]
    /\ ext_log = [r \in Receivers |-> <<>>]
    /\ portfolio = <<>>
    /\ om_orders = <<>>

\* a dispatcher built with the four core bridges, which publish in Try mode
Init ==
    /\ BusIdle
    /\ SandboxIdle
    /\ RecvIdle
    /\ MetaIdle
    /\ PipelineIdle
    /\ FrameIdle
    /\ disp_pc = "init"
    /\ handlers = CoreBridges
    /\ closures = {}
    /\ bridge_mode = Try

----------------------------------------------------------------------------
(* Producers *)

\* a producer builds root metadata and calls publish(event, mode)
Publish(p, t, mode, prio, body) ==
    /\ p_pc[p] = "idle"
    /\ LET e == Event(EventMetadata_new(p, prio, next_seq), t, body)
           r == EventSender_publish(t, mode)
       IN  /\ next_seq' = next_seq + 1
           /\ emitted' = Append(emitted, Emission(e))
           /\ IF r = Wait
              THEN /\ p_pc' = [p_pc EXCEPT ![p] = "waiting"]
                   /\ pend' = [pend EXCEPT ![p] = PubRecord(p, t, mode, e, Wait)]
                   /\ UNCHANGED <<queue, last_pub, accepted>>
              ELSE /\ last_pub' = PubRecord(p, t, mode, e, r)
                   /\ queue' = IF r = Ok
                               THEN [queue EXCEPT ![t] = Enqueue(@, e)]
                               ELSE queue
                   /\ accepted' = IF r = Ok THEN accepted \cup {e} ELSE accepted
                   /\ UNCHANGED <<p_pc, pend>>
    /\ UNCHANGED <<bus_alive, dispVars, shutVars, sinkVars, sbVars, xVars>>

\* a producer suspended in a Blocking or Timeout publish is woken: a slot is
\* free, or the receivers are gone
PublishWake(p) ==
    /\ p_pc[p] = "waiting"
    /\ LET c == pend[p]
           a == SendAttempt(queue[c.topic])
       IN  /\ a # "Full"
           /\ last_pub' = PubRecord(p, c.topic, c.mode, c.ev,
                                    IF a = "Sent" THEN Ok
                                    ELSE PublishError(c.mode, a))
           /\ queue' = IF a = "Sent"
                       THEN [queue EXCEPT ![c.topic] = Enqueue(@, c.ev)]
                       ELSE queue
           /\ accepted' = IF a = "Sent" THEN accepted \cup {c.ev} ELSE accepted
    /\ p_pc' = [p_pc EXCEPT ![p] = "idle"]
    /\ pend' = [pend EXCEPT ![p] = NoPub]
    /\ UNCHANGED <<bus_alive, next_seq, emitted, dispVars, shutVars, sinkVars, sbVars,
                   xVars>>

\* the bounded wait of a Timeout(D) publish expires with the queue still full
PublishExpire(p) ==
    /\ p_pc[p] = "waiting"
    /\ pend[p].mode.m = "Timeout"
    /\ SendAttempt(queue[pend[p].topic]) = "Full"
    /\ last_pub' = PubRecord(p, pend[p].topic, pend[p].mode, pend[p].ev,
                             PublishError(pend[p].mode, "Timeout"))
    /\ p_pc' = [p_pc EXCEPT ![p] = "idle"]
    /\ pend' = [pend EXCEPT ![p] = NoPub]
    /\ UNCHANGED <<queue, bus_alive, next_seq, emitted, accepted, dispVars, shutVars,
                   sinkVars, sbVars, xVars>>

\* a receiver obtained from the bus takes the next event of its topic
ExtRecv(r, t) ==
    /\ bus_alive
    /\ queue[t] # <<>>
    /\ ext_log' = [ext_log EXCEPT ![r] = Append(@, Head(queue[t]))]
    /\ queue' = [queue EXCEPT ![t] = Tail(@)]
    /\ UNCHANGED <<bus_alive, next_seq, emitted, p_pc, pend, last_pub, accepted,
                   dispVars, shutVars, portfolio, om_orders, sbVars, xVars>>

\* some sender of the topic exists: the producers keep theirs
SendersLive == Producers # {}

\* EventReceiver::recv_timeout(D) up to its first return or suspension
EventReceiver_recv_timeout(t, D) ==
    IF queue[t] # <<>> THEN Ok
    ELSE IF ~SendersLive THEN from_recv_timeout("Disconnected")
    ELSE Wait

\* a receiver calls recv_timeout(D) on its topic
RecvTimeout(r, t, D) ==
    /\ bus_alive
    /\ r_pc[r] = "idle"
    /\ LET a == EventReceiver_recv_timeout(t, D)
       IN  IF a = Wait
           THEN /\ r_pc' = [r_pc EXCEPT ![r] = "waiting"]
                /\ r_pend' = [r_pend EXCEPT ![r] = RecvRecord(r, t, D, Wait)]
                /\ UNCHANGED <<queue, ext_log, last_recv>>
           ELSE /\ last_recv' = RecvRecord(r, t, D, a)
                /\ ext_log' = IF a = Ok
                               THEN [ext_log EXCEPT ![r] = Append(@, Head(queue[t]))]
                               ELSE ext_log
                /\ queue' = IF a = Ok THEN [queue EXCEPT ![t] = Tail(@)] ELSE queue
                /\ UNCHANGED <<r_pc, r_pend>>
    /\ UNCHANGED <<bus_alive, next_seq, emitted, p_pc, pend, last_pub, accepted,
                   dispVars, shutVars, portfolio, om_orders, sbVars, md_pool, frVars, dpVars>>

\* an event arrives while the receiver waits in recv_timeout
RecvWake(r) ==
    /\ r_pc[r] = "waiting"
    /\ queue[r_pend[r].topic] # <<>>
    /\ LET c == r_pend[r]
       IN  /\ last_recv' = RecvRecord(r, c.topic, c.dur, Ok)
           /\ ext_log' = [ext_log EXCEPT ![r] = Append(@, Head(queue[c.topic]))]
           /\ queue' = [queue EXCEPT ![c.topic] = Tail(@)]
    /\ r_pc' = [r_pc EXCEPT ![r] = "idle"]
    /\ r_pend' = [r_pend EXCEPT ![r] = NoRecv]
    /\ UNCHANGED <<bus_alive, next_seq, emitted, p_pc, pend, last_pub, accepted,
                   dispVars, shutVars, portfolio, om_orders, sbVars, md_pool, frVars, dpVars>>

\* the bounded wait of recv_timeout(D) expires with the queue still empty
RecvExpire(r) ==
    /\ r_pc[r] = "waiting"
    /\ queue[r_pend[r].topic] = <<>>
    /\ last_recv' = RecvRecord(r, r_pend[r].topic, r_pend[r].dur,
                               from_recv_timeout("Timeout"))
    /\ r_pc' = [r_pc EXCEPT ![r] = "idle"]
    /\ r_pend' = [r_pend EXCEPT ![r] = NoRecv]
    /\ UNCHANGED <<busVars, dispVars, shutVars, sinkVars, sbVars, md_pool, frVars, dpVars>>

\* the EventBus and the receivers obtained from it are dropped
DropBus ==
    /\ bus_alive
    /\ bus_alive' = FALSE
    /\ UNCHANGED <<queue, next_seq, emitted, p_pc, pend, last_pub, accepted, dispVars,
                   shutVars, sinkVars, sbVars, xVars>>

----------------------------------------------------------------------------
(* Shutdown protocol *)

\* shutdown(), first half: flag.swap(true); the caller notifies only if it was false
ShutdownSwap(c) ==
    /\ shut_pc[c] = "idle"
    /\ c = "dispatcher" => disp_pc = "init"
    /\ shutdown_flag' = TRUE
    /\ shut_pc' = [shut_pc EXCEPT ![c] = IF shutdown_flag THEN "done" ELSE "notify"]
    /\ UNCHANGED <<busVars, dispVars, notify_calls, sinkVars, sbVars, xVars>>

\* shutdown(), second half: notify_waiters() wakes the Notified futures that exist
ShutdownNotify(c) ==
    /\ shut_pc[c] = "notify"
    /\ notify_calls' = notify_calls + 1
    /\ shut_pc' = [shut_pc EXCEPT ![c] = "done"]
    /\ UNCHANGED <<busVars, dispVars, shutdown_flag, sinkVars, sbVars, xVars>>

----------------------------------------------------------------------------
(* Dispatcher *)

\* run(self) consumes the dispatcher; a shutdown(&self) call has returned by then
DispatcherRun ==
    /\ disp_pc = "init"
    /\ shut_pc["dispatcher"] # "notify"
    /\ disp_pc' = "select"
    /\ UNCHANGED <<busVars, handlers, bridge_mode, closures, calls, disp_err, sd_enabled,
                   notified_at, cur, cur_topic, out_event, disp_log, h_log, shutVars,
                   sinkVars, sbVars, xVars>>

\* top of the loop: select! evaluates the precondition is_shutdown() and creates
\* the branch futures; notified() remembers the notify_waiters calls so far
SelectStart ==
    /\ disp_pc = "select"
    /\ sd_enabled' = shutdown_flag
    /\ notified_at' = notify_calls
    /\ disp_pc' = "waiting"
    /\ UNCHANGED <<busVars, handlers, bridge_mode, closures, calls, disp_err, cur, cur_topic,
                   out_event, disp_log, h_log, shutVars, sinkVars, sbVars, xVars>>

\* the shutdown branch is ready: it is enabled and a notify_waiters() call came
\* after its Notified future was created
ShutdownReady == sd_enabled /\ notified_at < notify_calls

\* the topic branches that are ready: select! takes any one of them
ReadyTopics == {t \in Topics : queue[t] # <<>>}

SelectShutdown ==
    /\ disp_pc = "waiting"
    /\ ShutdownReady
    /\ disp_pc' = "done_ok"
    /\ UNCHANGED <<busVars, handlers, bridge_mode, closures, calls, disp_err, sd_enabled,
                   notified_at, cur, cur_topic, out_event, disp_log, h_log, shutVars,
                   sinkVars, sbVars, xVars>>

\* mutant: the receiver takes the newest event of the queue
recv_async_newest(q) == <<q[Len(q)], SubSeq(q, 1, Len(q) - 1)>>

\* a completed recv_async() on a non-empty queue: <<the event, the queue left>>
recv_async(q) == <<Head(q), Tail(q)>>

\* mutant: the handler is spawned and the loop goes on
AwaitHandler_spawned == "select"

\* handler.handle(event).await: the loop stays in the branch until the handler
\* has returned
AwaitHandler == "handling"

\* a topic branch completes with Ok(event): the handler of the topic, if any, is
\* awaited on it; without a handler the event is dropped and the loop continues
SelectRecv(t) ==
    /\ disp_pc = "waiting"
    /\ t \in ReadyTopics
    /\ queue' = [queue EXCEPT ![t] = recv_async(@)[2]]
    /\ disp_log' = Append(disp_log, recv_async(queue[t])[1])
    /\ calls' = <<>>
    /\ IF t \in handlers
       THEN /\ cur' = recv_async(queue[t])[1]
            /\ cur_topic' = t
            /\ disp_pc' = AwaitHandler
       ELSE /\ disp_pc' = "select"
            /\ UNCHANGED <<cur, cur_topic>>
    /\ UNCHANGED <<bus_alive, next_seq, emitted, p_pc, pend, last_pub, accepted,
                   handlers, bridge_mode, closures, disp_err, sd_enabled, notified_at,
                   out_event, h_log, shutVars, sinkVars, sbVars, xVars>>

\* mutant: a handler's error is logged and the loop continues
RunAfter_continue(result) == "select"

\* handler.handle(event).await?: Ok goes back to the top of the loop, an error
\* leaves run_impl with that error
RunAfter(result) == IF result = Ok THEN "select" ELSE "done_err"

\* Order::new as the order manager builds it from the submitted fields
OrderOf(signal) ==
    [symbol |-> signal.symbol, quantity |-> signal.quantity,
     limit_price |-> signal.limit_price]

\* what submit_order records for the signal it accepted
OrderManager_submit(event) == [corr |-> event.corr, order |-> OrderOf(event.body)]

\* the OrderEvent SignalToOrderBridge builds for an accepted signal
SignalToOrderBridge_event(event, n) ==
    Event(EventMetadata_child(event, "event_bus.signal_to_order", event.prio, n),
          "order", OrderOf(event.body))

\* mutant: the execution event gets root metadata instead of a child of the order's
OrderExecutionBridge_event_root(event, n) ==
    Event(EventMetadata_new("event_bus.order_execution_bridge", "High", n),
          "execution", event.body)

\* the ExecutionEvent OrderExecutionBridge builds for a placed order
OrderExecutionBridge_event(event, n) ==
    Event(EventMetadata_child(event, "event_bus.order_execution_bridge", "High", n),
          "execution", event.body)

\* the calls a bridge makes on its collaborator, in order, for one event
CollaboratorCalls(t) ==
    IF t = "signal" THEN <<"submit_order", "get_order">> ELSE <<"place_order">>

\* a handler invocation that returned: the event, the collaborator calls made
\* (each with its outcome) and the result of handle()
Handled(t, e, cs, result) ==
    [topic |-> t, ev |-> e, calls |-> cs, result |-> result]

\* the calls made when the k-th call is the first to fail (k = 0: none fails)
CallsUpTo(t, k) ==
    LET ops == CollaboratorCalls(t)
        n == IF k = 0 THEN Len(ops) ELSE k
    IN  [i \in 1..n |-> [op |-> ops[i], ok |-> i # k]]

\* mutant: a failed collaborator call does not end the handler
Proceeds_always(cs) == TRUE

\* the `?` after each collaborator call: the handler goes on to build and
\* publish the child event only if every call returned Ok
Proceeds(cs) == \A i \in 1..Len(cs) : cs[i].ok

\* SignalToOrderBridge::handle / OrderExecutionBridge::handle up to publish:
\* each collaborator call is made once, in order; the first failure returns
\* Err(Upstream), otherwise the child event is built and publish is reached
HandleBridge(t) ==
    /\ disp_pc = "handling"
    /\ cur_topic = t
    /\ t \in {"signal", "order"}
    /\ t \notin closures
    /\ \E fails \in 0..Len(CollaboratorCalls(t)) :
         /\ calls' = CallsUpTo(t, fails)
         /\ IF Proceeds(calls')
            THEN /\ out_event' = IF t = "signal"
                                 THEN SignalToOrderBridge_event(cur, next_seq)
                                 ELSE OrderExecutionBridge_event(cur, next_seq)
                 /\ om_orders' = IF t = "signal"
                                  THEN Append(om_orders, OrderManager_submit(cur))
                                  ELSE om_orders
                 /\ next_seq' = next_seq + 1
                 /\ emitted' = Append(emitted, Emission(out_event'))
                 /\ disp_pc' = "publishing"
                 /\ UNCHANGED <<disp_err, h_log>>
            ELSE /\ disp_err' = Upstream(calls'[Len(calls')].op)
                 /\ disp_pc' = RunAfter(disp_err')
                 /\ h_log' = Append(h_log, Handled(t, cur, calls', disp_err'))
                 /\ UNCHANGED <<out_event, next_seq, emitted, om_orders>>
    /\ UNCHANGED <<queue, bus_alive, p_pc, pend, last_pub, accepted, handlers,
                   bridge_mode, closures, sd_enabled, notified_at, cur, cur_topic,
                   disp_log, shutVars, ext_log, portfolio, sbVars, xVars>>

\* the bridge's publish(event, self.mode)?: Ok ends the handler, an error ends run;
\* a Blocking publish on a full queue keeps the loop inside the handler
BridgePublish ==
    /\ disp_pc = "publishing"
    /\ LET t == out_event.kind
           r == EventSender_publish(t, bridge_mode)
           result == IF r = Wait THEN PublishError(bridge_mode, "Timeout") ELSE r
       IN  /\ r = Wait => bridge_mode.m = "Timeout"
           /\ last_pub' = PubRecord("bridge", t, bridge_mode, out_event, result)
           /\ queue' = IF result = Ok
                       THEN [queue EXCEPT ![t] = Enqueue(@, out_event)]
                       ELSE queue
           /\ accepted' = IF result = Ok THEN accepted \cup {out_event} ELSE accepted
           /\ disp_pc' = RunAfter(result)
           /\ disp_err' = IF result = Ok THEN disp_err ELSE result
           /\ h_log' = Append(h_log, Handled(cur_topic, cur, calls, result))
    /\ UNCHANGED <<bus_alive, next_seq, emitted, p_pc, pend, handlers, bridge_mode,
                   closures, calls, sd_enabled, notified_at, cur, cur_topic, out_event,
                   disp_log, shutVars, sinkVars, sbVars, xVars>>

\* mutant: the execution applied twice
PortfolioUpdateBridge_handle_twice(pf, event) == Append(Append(pf, event.seq), event.seq)

\* Portfolio::update_from_execution under the write lock
PortfolioUpdateBridge_handle(pf, event) == Append(pf, event.seq)

HandleExecution ==
    /\ disp_pc = "handling"
    /\ cur_topic = "execution"
    /\ cur_topic \notin closures
    /\ portfolio' = PortfolioUpdateBridge_handle(portfolio, cur)
    /\ h_log' = Append(h_log, Handled(cur_topic, cur, <<>>, Ok))
    /\ disp_pc' = "select"
    /\ UNCHANGED <<busVars, handlers, bridge_mode, closures, calls, disp_err, sd_enabled,
                   notified_at, cur, cur_topic, out_event, disp_log, shutVars, ext_log,
                   om_orders, sbVars, xVars>>

\* RiskLoggingHandler::handle: a diagnostic, then Ok
HandleRisk ==
    /\ disp_pc = "handling"
    /\ cur_topic = "risk"
    /\ cur_topic \notin closures
    /\ h_log' = Append(h_log, Handled(cur_topic, cur, <<>>, Ok))
    /\ disp_pc' = "select"
    /\ UNCHANGED <<busVars, handlers, bridge_mode, closures, calls, disp_err, sd_enabled,
                   notified_at, cur, cur_topic, out_event, disp_log, shutVars, sinkVars,
                   sbVars, xVars>>

\* ClosureHandler::handle: the closure's future is awaited; it returns Ok or an error
HandleClosure(t, result) ==
    /\ disp_pc = "handling"
    /\ cur_topic = t
    /\ t \in closures
    /\ h_log' = Append(h_log, Handled(t, cur, <<>>, result))
    /\ disp_pc' = RunAfter(result)
    /\ disp_err' = IF result = Ok THEN disp_err ELSE result
    /\ UNCHANGED <<busVars, handlers, bridge_mode, closures, calls, sd_enabled, notified_at,
                   cur, cur_topic, out_event, disp_log, shutVars, sinkVars, sbVars,
                   xVars>>

DispatcherStep ==
    \/ DispatcherRun
    \/ SelectStart
    \/ SelectShutdown
    \/ \E t \in Topics : SelectRecv(t)
    \/ \E t \in Topics : HandleBridge(t)
    \/ BridgePublish
    \/ HandleExecution
    \/ HandleRisk

----------------------------------------------------------------------------
(* Strategy sandbox *)

EvalOk(signals, logs) == [kind |-> "Ok", signals |-> signals, logs |-> logs]
EvalErr(kind) == [kind |-> kind, signals |-> <<>>, logs |-> <<>>]

\* evaluate(): the context is serialized, written to the module and the
\* exported evaluate function is entered
EvaluateCall ==
    /\ sb_pc = "idle"
    /\ Len(sb_results) < MaxEvals
    /\ sb_pc' = "running"
    /\ sb_emitted' = <<>>
    /\ UNCHANGED <<busVars, dispVars, shutVars, sinkVars, xVars, sb_signals, sb_logs,
                   sb_stale, sb_results, sb_next, sb_cause, sb_todo, signal_sequence>>

\* host.log: the message is appended to the log buffer
HostLog ==
    /\ sb_pc = "running"
    /\ Len(sb_logs) < MaxEmit
    /\ sb_logs' = Append(sb_logs, sb_next)
    /\ sb_next' = sb_next + 1
    /\ UNCHANGED <<busVars, dispVars, shutVars, sinkVars, xVars, sb_signals, sb_pc,
                   sb_emitted, sb_stale, sb_results, sb_cause, sb_todo, signal_sequence>>

\* the error kind of evaluate when the call of the exported function fails:
\* .map_err(StrategyError::Wasm), whether the module trapped or a host
\* function returned an error
evaluate_call_error(cause) == "Wasm"

\* the payload emit_signal pushes for a decoded WasmSignalInstruction
SignalPayload(label, prio) == [label |-> label, prio |-> prio]

\* host.emit_signal: bytes that decode are appended to the signal buffer; bytes
\* that do not decode make the host call fail, which traps the module
HostEmitSignalWith(decodes, priority) ==
    /\ sb_pc = "running"
    /\ Len(sb_emitted) < MaxEmit
    /\ IF decodes
       THEN /\ sb_signals' = Append(sb_signals, SignalPayload(sb_next, priority))
            /\ sb_emitted' = Append(sb_emitted, sb_next)
            /\ sb_next' = sb_next + 1
            /\ UNCHANGED <<sb_pc, sb_results, sb_cause>>
       ELSE /\ sb_pc' = "idle"
            /\ sb_results' = Append(sb_results, EvalErr(evaluate_call_error("bad_signal")))
            /\ sb_cause' = "bad_signal"
            /\ UNCHANGED <<sb_signals, sb_emitted, sb_next>>
    /\ UNCHANGED <<busVars, dispVars, shutVars, sinkVars, xVars, sb_logs, sb_stale,
                   sb_todo, signal_sequence>>

\* the module traps of its own accord: the buffers stay as they are
ModuleTrap ==
    /\ sb_pc = "running"
    /\ sb_pc' = "idle"
    /\ sb_results' = Append(sb_results, EvalErr(evaluate_call_error("trap")))
    /\ sb_cause' = "trap"
    /\ UNCHANGED <<busVars, dispVars, shutVars, sinkVars, xVars, sb_signals, sb_logs,
                   sb_emitted, sb_stale, sb_next, sb_todo, signal_sequence>>

\* emit_signal with an instruction of High priority
HostEmitSignal(decodes) == HostEmitSignalWith(decodes, "High")

\* what evaluate() does with the buffers once the module has returned after
\* `elapsed`: <<result, signals buffer, logs buffer>>
Evaluate_finish(signals, logs, timed_out) ==
    IF timed_out
    THEN <<EvalErr("Timeout"), signals, logs>>
    ELSE <<EvalOk(signals, logs), <<>>, <<>> >>

\* the module returns from evaluate; elapsed is within evaluation_timeout or not
EvaluateReturn(timed_out) ==
    /\ sb_pc = "running"
    /\ LET f == Evaluate_finish(sb_signals, sb_logs, timed_out)
       IN  /\ sb_results' = Append(sb_results, f[1])
           /\ sb_signals' = f[2]
           /\ sb_logs' = f[3]
           /\ sb_todo' = f[1].signals
           /\ sb_pc' = IF f[1].kind = "Ok" /\ f[1].signals # <<>>
                       THEN "publish" ELSE "idle"
    /\ sb_stale' = IF timed_out
                   THEN sb_stale \cup {sb_emitted[i] : i \in 1..Len(sb_emitted)}
                   ELSE sb_stale
    /\ sb_cause' = "returned"
    /\ UNCHANGED <<busVars, dispVars, shutVars, sinkVars, xVars, sb_emitted, sb_next,
                   signal_sequence>>

\* mutant: every signal is published with Normal priority
StrategyEventBridge_event_normal(payload, n, sequence) ==
    Event([EventMetadata_new("strategy.test", "Normal", n) EXCEPT !.seq = sequence],
          "signal", payload)

\* the SignalEvent the bridge builds for a payload: metadata of source
\* strategy.<name> with the payload's priority, its sequence replaced
StrategyEventBridge_event(payload, n, sequence) ==
    Event([EventMetadata_new("strategy.test", payload.prio, n) EXCEPT !.seq = sequence],
          "signal", payload)

\* StrategyEventBridge::publish, one turn of its loop: fresh root metadata whose
\* sequence is replaced by SIGNAL_SEQUENCE, then a Blocking publish
StrategyEventBridge_publish ==
    /\ sb_pc = "publish"
    /\ sb_todo # <<>>
    /\ LET payload == Head(sb_todo)
           e == StrategyEventBridge_event(payload, next_seq, signal_sequence)
           r == EventSender_publish("signal", Blocking)
       IN  /\ r # Wait
           /\ last_pub' = PubRecord("strategy", "signal", Blocking, e, r)
           /\ queue' = IF r = Ok
                       THEN [queue EXCEPT !["signal"] = Enqueue(@, e)]
                       ELSE queue
           /\ accepted' = IF r = Ok THEN accepted \cup {e} ELSE accepted
           /\ sb_todo' = IF r = Ok THEN Tail(sb_todo) ELSE <<>>
           /\ sb_pc' = IF r = Ok /\ Tail(sb_todo) # <<>> THEN "publish" ELSE "idle"
    /\ next_seq' = next_seq + 1
    /\ signal_sequence' = signal_sequence + 1
    /\ emitted' = Append(emitted, [seq |-> signal_sequence, src |-> "strategy.test"])
    /\ UNCHANGED <<bus_alive, p_pc, pend, dispVars, shutVars, sinkVars, xVars, sb_signals,
                   sb_logs, sb_emitted, sb_stale, sb_results, sb_next, sb_cause>>

----------------------------------------------------------------------------
(* Metadata lineage *)

\* sources and priorities given to new() and child()
MetaSources == {"test.signal", "event_bus.signal_to_order"}
MetaPriorities == {"Normal", "High"}

\* a metadata value of the pool: `from` is the index of the value child() was
\* called on, 0 for a root
Pooled(meta, from) == [meta |-> meta, from |-> from]

\* EventMetadata::new(source, priority)
MetaNew(source, priority) ==
    /\ Len(md_pool) < MaxMeta
    /\ md_pool' = Append(md_pool,
                         Pooled(EventMetadata_new(source, priority, next_seq), 0))
    /\ next_seq' = next_seq + 1
    /\ emitted' = Append(emitted, [seq |-> next_seq, src |-> source])
    /\ UNCHANGED <<queue, bus_alive, p_pc, pend, last_pub, accepted, dispVars, shutVars,
                   sinkVars, sbVars, rxVars, frVars, dpVars>>

\* md_pool[i].child(source, priority)
MetaChild(i, source, priority) ==
    /\ Len(md_pool) < MaxMeta
    /\ i \in 1..Len(md_pool)
    /\ md_pool' = Append(md_pool,
                         Pooled(EventMetadata_child(md_pool[i].meta, source, priority,
                                                    next_seq), i))
    /\ next_seq' = next_seq + 1
    /\ emitted' = Append(emitted, [seq |-> next_seq, src |-> source])
    /\ UNCHANGED <<queue, bus_alive, p_pc, pend, last_pub, accepted, dispVars, shutVars,
                   sinkVars, sbVars, rxVars, frVars, dpVars>>

----------------------------------------------------------------------------
(* Event frames (envelope.rs) *)

\* values of the leading fixed-width field of a payload
Heads == 0..3

\* the values of the leading field that decode as a payload of the kind: the
\* variant indices of RiskAction (4 variants) and MarketPayload (3 variants);
\* the payloads of the other kinds are structs
Variants(kind) ==
    CASE kind = "risk" -> 0..3
      [] kind = "market" -> 0..2
      [] OTHER -> Heads

\* keys and values of the string-to-string maps (tags, metadata)
TagKeys == {1, 2}
TagVals == {7, 8}

\* the maps: sets of <<key, value>> pairs with one value per key
Maps ==
    {m \in SUBSET (TagKeys \X TagVals) : \A a, b \in m : a[1] = b[1] => a = b}

\* the orders in which a HashMap with these entries may be iterated
Orders(tags) ==
    {o \in [1..Cardinality(tags) -> tags] : \A i, j \in DOMAIN o : o[i] = o[j] => i = j}

RECURSIVE Flat(_)
\* the bytes of the entries, in the given order
Flat(o) == IF o = <<>> THEN <<>> ELSE <<Head(o)[1], Head(o)[2]>> \o Flat(Tail(o))

\* serialize(value): bincode with fixed-width integers writes the leading
\* field, the length of the map and then the entries as the map iterates them
serialize(value, order) == <<value.head, Len(order)>> \o Flat(order)

RECURSIVE ReadMap(_, _, _)
\* the map read from n entries starting at byte i: a later entry replaces an
\* earlier one with the same key (HashMap::insert)
ReadMap(bytes, i, n) ==
    IF n = 0 THEN {}
    ELSE LET rest == ReadMap(bytes, i + 2, n - 1)
         IN  IF \E e \in rest : e[1] = bytes[i]
             THEN rest
             ELSE rest \cup {<<bytes[i], bytes[i + 1]>>}

\* deserialize::<T>(bytes): trailing bytes are allowed; too few bytes or an
\* unknown variant index is an error
deserialize(T, bytes) ==
    IF /\ Len(bytes) >= 2
       /\ bytes[1] \in Variants(T)
       /\ Len(bytes) >= 2 + 2 * bytes[2]
    THEN [ok |-> TRUE, value |-> Payload(bytes[1], ReadMap(bytes, 3, bytes[2]))]
    ELSE [ok |-> FALSE, value |-> NoPayload]

\* X::to_frame(&self), the map being iterated in the given order
to_frame(event, order) ==
    EventFrame_from_parts(event.kind, event.meta, serialize(event.payload, order))

\* mutant: the payload is decoded before the kind is looked at
from_frame_decode_first(X, frame) ==
    LET d == deserialize(X, frame.payload)
    IN  IF ~d.ok THEN Decoded("Deserialization", X, frame.kind, NoTyped)
        ELSE IF frame.kind # X THEN Decoded("KindMismatch", X, frame.kind, NoTyped)
        ELSE Decoded("Ok", X, frame.kind, TypedEvent(X, frame.meta, d.value))

\* mutant: the decoded event gets metadata of its own
from_frame_new_metadata(X, frame) ==
    IF frame.kind # X
    THEN Decoded("KindMismatch", X, frame.kind, NoTyped)
    ELSE LET d == deserialize(X, frame.payload)
         IN  IF d.ok
             THEN Decoded("Ok", X, frame.kind,
                          TypedEvent(X, EventMetadata_new(frame.meta.src,
                                                          frame.meta.prio, 0),
                                     d.value))
             ELSE Decoded("Deserialization", X, frame.kind, NoTyped)

\* X::from_frame(frame): the kind is checked, then the payload is decoded
from_frame(X, frame) ==
    IF frame.kind # X
    THEN Decoded("KindMismatch", X, frame.kind, NoTyped)
    ELSE LET d == deserialize(X, frame.payload)
         IN  IF d.ok
             THEN Decoded("Ok", X, frame.kind, TypedEvent(X, frame.meta, d.value))
             ELSE Decoded("Deserialization", X, frame.kind, NoTyped)

\* metadata of the events and frames handed in
MetaInputs ==
    { EventMetadata_new("test.risk", "Normal", 1),
      EventMetadata_child(EventMetadata_new("test.signal", "High", 1),
                          "event_bus.signal_to_order", "High", 2) }

\* the typed events handed to to_frame
EventInputs ==
    UNION { { TypedEvent(k, meta, Payload(h, m)) :
                h \in Variants(k), m \in Maps, meta \in MetaInputs } : k \in Topics }

\* payload bytes of frames built with from_parts: encodings, encodings with a
\* trailing byte, and byte strings that are no encoding
RawPayloads ==
    UNION { { serialize(Payload(h, m), o) \o trail :
                o \in Orders(m), trail \in {<<>>, <<9>>} } :
            h \in {0, 3}, m \in Maps }
      \cup {<<>>, <<5>>, <<5, 0>>, <<0, 2, 1, 7>>, <<0, 2, 1, 7, 1, 8>>}

FrameInputs ==
    { EventFrame_from_parts(k, EventMetadata_new("test.risk", "Normal", 1), b) :
        k \in {"risk", "signal"}, b \in RawPayloads }

\* event.to_frame()
ToFrame(order) ==
    /\ fr_pc = "event"
    /\ order \in Orders(fr_event.payload.tags)
    /\ fr_frame' = to_frame(fr_event, order)
    /\ fr_pc' = "frame"
    /\ UNCHANGED <<busVars, dispVars, shutVars, sinkVars, sbVars, rxVars, md_pool, dpVars,
                   fr_event, fr_decoded, fr_reenc>>

\* X::from_frame(&frame)
FromFrame(X) ==
    /\ fr_pc = "frame"
    /\ fr_decoded' = from_frame(X, fr_frame)
    /\ fr_pc' = "decoded"
    /\ UNCHANGED <<busVars, dispVars, shutVars, sinkVars, sbVars, rxVars, md_pool, dpVars,
                   fr_event, fr_frame, fr_reenc>>

\* decoded.to_frame(): the decoded event is encoded again
Reencode(order) ==
    /\ fr_pc = "decoded"
    /\ fr_decoded.res = "Ok"
    /\ order \in Orders(fr_decoded.event.payload.tags)
    /\ fr_reenc' = to_frame(fr_decoded.event, order).payload
    /\ fr_pc' = "reencoded"
    /\ UNCHANGED <<busVars, dispVars, shutVars, sinkVars, sbVars, rxVars, md_pool, dpVars,
                   fr_event, fr_frame, fr_decoded>>

\* the orders of all maps
AllOrders == UNION {Orders(m) : m \in Maps}

----------------------------------------------------------------------------
(* Level 2 order book (data-pipeline/order_book.rs) *)

\* mutant: the quantity is added to the level
apply_level_accumulate(side, price, quantity) ==
    IF quantity = 0
    THEN [p \in DOMAIN side \ {price} |-> side[p]]
    ELSE [p \in DOMAIN side \cup {price} |->
            IF p = price
            THEN (IF price \in DOMAIN side THEN side[p] ELSE 0) + quantity
            ELSE side[p]]

\* mutant: every quantity is inserted
apply_level_insert(side, price, quantity) ==
    [p \in DOMAIN side \cup {price} |-> IF p = price THEN quantity ELSE side[p]]

\* OrderBookSide::apply_level: remove on a zero quantity, insert otherwise
apply_level(side, price, quantity) ==
    IF quantity = 0
    THEN [p \in DOMAIN side \ {price} |-> side[p]]
    ELSE [p \in DOMAIN side \cup {price} |-> IF p = price THEN quantity ELSE side[p]]

\* mutant: the direction is ignored
best_max(side, descending) ==
    IF DOMAIN side = {} THEN None
    ELSE LET p == CHOOSE p \in DOMAIN side : \A o \in DOMAIN side : o <= p
         IN  <<p, side[p]>>

\* OrderBookSide::best: max_by under the price order, reversed when not
\* descending; the prices of a map are distinct, so the maximum is unique
best(side, descending) ==
    IF DOMAIN side = {} THEN None
    ELSE LET p == CHOOSE p \in DOMAIN side :
                      \A o \in DOMAIN side : IF descending THEN o <= p ELSE p <= o
         IN  <<p, side[p]>>

\* order_level(price, quantity)
order_level(price, quantity) == [price |-> price, size |-> quantity]

\* mutant: a removal is not reported
LevelTwoBook_apply_payload_changed(update) ==
    OrderBookDelta(update.pair,
        IF update.side = "Buy" /\ update.quantity # 0
        THEN <<order_level(update.price, update.quantity)>> ELSE <<>>,
        IF update.side = "Sell" /\ update.quantity # 0
        THEN <<order_level(update.price, update.quantity)>> ELSE <<>>,
        update.sequence)

\* the payload LevelTwoBook::apply returns
LevelTwoBook_apply_payload(update) ==
    OrderBookDelta(update.pair,
        IF update.side = "Buy"
        THEN <<order_level(update.price, update.quantity)>> ELSE <<>>,
        IF update.side = "Sell"
        THEN <<order_level(update.price, update.quantity)>> ELSE <<>>,
        update.sequence)

\* the larger of two numbers (usize::max)
Max(a, b) == IF a >= b THEN a ELSE b

\* LevelTwoBook::apply(update)
LevelTwoBook_apply(update) ==
    /\ ob_instrument' = update.pair
    /\ ob_depth' = Max(ob_depth, update.depth_hint)
    /\ IF update.side = "Buy"
       THEN /\ ob_bids' = apply_level(ob_bids, update.price, update.quantity)
            /\ UNCHANGED ob_asks
       ELSE /\ ob_asks' = apply_level(ob_asks, update.price, update.quantity)
            /\ UNCHANGED ob_bids
    /\ ob_ret' = LevelTwoBook_apply_payload(update)
    /\ ob_upd' = update
    /\ ob_last' = [ob_last EXCEPT ![update.side][update.price] = update.quantity]
    /\ UNCHANGED <<busVars, dispVars, shutVars, sinkVars, sbVars, rxVars, md_pool,
                   frVars, wsVars, feedVars>>

\* the updates handed to apply
Updates ==
    { OrderBookUpdate_new(pair, side, price, quantity, sequence) :
        pair \in Pairs, side \in Sides, price \in Prices,
        quantity \in Quantities, sequence \in UpdateSequences }

----------------------------------------------------------------------------
(* Resilient WebSocket worker (data-pipeline/websocket.rs) *)

RECURSIVE powi(_, _)
\* f64::powi for a multiplier that is a whole number
powi(x, n) == IF n = 0 THEN 1 ELSE x * powi(x, n - 1)

\* u32::saturating_sub
saturating_sub(a, b) == IF a >= b THEN a - b ELSE 0

\* the values of `noise`: u64 % max(jitter, 1) when a jitter is configured and
\* the random source delivers, no noise otherwise
Noises(cfg) ==
    IF cfg.jitter = Absent THEN {0} ELSE 0..(Max(cfg.jitter, 1) - 1)

\* BackoffConfig::compute_delay(attempt), `noise` being the random draw
compute_delay(cfg, attempt, noise) ==
    LET exp == powi(cfg.multiplier, saturating_sub(attempt, 1))
        delay == cfg.initial * exp
        capped == IF delay > cfg.max THEN cfg.max ELSE delay
    IN  IF cfg.jitter # Absent THEN capped + noise ELSE capped

\* Duration::MAX in the unit of the model: the largest value a Duration holds
DurationMax == 20

\* Duration::mul_f64 panics when the product does not fit a Duration; the
\* product is formed before the cap at max is applied
mul_f64_panics(cfg, attempt) ==
    cfg.initial * powi(cfg.multiplier, saturating_sub(attempt, 1)) > DurationMax

\* the backoff policies compute_delay is exercised on
BackoffConfigs ==
    { BackoffConfig(initial, max, multiplier, jitter) :
        initial \in {1, 2}, max \in {3, 5}, multiplier \in {1, 2},
        jitter \in {Absent, 0, 2} }

\* compute_delay is called for the next attempt and returns
ComputeDelay(noise) ==
    /\ bk_cfg # NoBackoff
    /\ Len(bk_delays) < MaxAttempt
    /\ ~mul_f64_panics(bk_cfg, Len(bk_delays) + 1)
    /\ noise \in Noises(bk_cfg)
    /\ bk_delays' = Append(bk_delays, compute_delay(bk_cfg, Len(bk_delays) + 1, noise))
    /\ UNCHANGED <<busVars, dispVars, shutVars, sinkVars, sbVars, rxVars, md_pool,
                   frVars, obVars, feedVars, bk_cfg, ws_cfg, ws_pc, ws_attempt, ws_lf_age,
                   ws_hb_age, ws_idle, ws_rx, ws_sleep_left, ioVars>>

\* the policy of the worker
WsBackoff == BackoffConfig(1, 2, 4, 2)

\* the configurations the worker is spawned with
WebSocketConfigs ==
    { WebSocketConfig(heartbeat, WsBackoff, read_timeout) :
        heartbeat \in {Absent, 1, 2}, read_timeout \in {1, 2} }

\* the longest time the model tells apart
Horizon == 3

\* a duration as far as the model tells it apart
Capped(d) == IF d > Horizon THEN Horizon ELSE d

\* the messages ws_stream.next() yields: a data frame (Text, Binary, Pong or
\* another frame), a Ping, a Close, an error, or the end of the stream
Messages == {"data", "ping", "close", "error", "end"}

\* the payloads of the Ping frames upstream sends
Payloads == {"a", "b"}

\* a frame, or the event the consumer gets for it
WsFrame(kind, payload) == [kind |-> kind, payload |-> payload]

\* (config.on_connect)(): the subscription frames of a connection
on_connect == <<WsFrame("Text", "subscribe-1"), WsFrame("Text", "subscribe-2")>>

\* ws_stream.send(frame).await and whether it returned Ok
SendCall(frame, ok) == [frame |-> frame, ok |-> ok]

\* the loop over on_connect: every frame is handed to ws_stream.send, in order,
\* whatever became of the sends before it
Transmitted(sent) == [i \in 1..Len(on_connect) |-> SendCall(on_connect[i], sent[i])]

\* sender.send(event): the consumer gets the event while it holds the receiver
Surface(events, event) == IF ws_rx THEN Append(events, event) ELSE events

\* the heartbeat branch of the select! is ready
HeartbeatReady ==
    /\ ws_cfg.heartbeat # Absent
    /\ ws_hb_age >= ws_cfg.heartbeat

\* after the loop over on_connect: a failed send is logged, and the read loop
\* starts in every case
AfterSubscribe(sent) == "select"

\* connect_async returns; on success the subscription frames are sent one by
\* one, sent[i] telling whether the i-th send succeeded
Connect(ok, sent) ==
    /\ ws_pc = "connect"
    /\ ok \/ ws_attempt < MaxAttempt
    /\ ok \/ \A i \in DOMAIN sent : sent[i]
    /\ IF ok
       THEN /\ ws_attempt' = 0
            /\ ws_lf_age' = 0
            /\ ws_hb_age' = 0
            /\ ws_idle' = 0
            /\ ws_in' = <<>>
            /\ ws_events' = <<>>
            /\ ws_out' = Transmitted(sent)
            /\ ws_pc' = AfterSubscribe(sent)
       ELSE /\ ws_attempt' = ws_attempt + 1
            /\ ws_pc' = "closed_check"
            /\ UNCHANGED <<ws_lf_age, ws_hb_age, ws_idle, ioVars>>
    /\ UNCHANGED <<busVars, dispVars, shutVars, sinkVars, sbVars, rxVars, md_pool,
                   frVars, obVars, feedVars, bk_cfg, bk_delays, ws_cfg, ws_rx, ws_sleep_left>>

\* select!: the heartbeat sleep completed; a ping is sent when no frame was
\* seen for an interval, and sending it counts as a frame. The worker's own
\* pings are not among the frames and events on record
Heartbeat(sent) ==
    /\ ws_pc = "select"
    /\ HeartbeatReady
    /\ IF ws_lf_age >= ws_cfg.heartbeat
       THEN IF sent
            THEN ws_lf_age' = 0 /\ ws_pc' = "select"
            ELSE ws_pc' = "closed_check" /\ UNCHANGED ws_lf_age
       ELSE UNCHANGED <<ws_pc, ws_lf_age>>
    /\ ws_hb_age' = 0
    /\ UNCHANGED <<busVars, dispVars, shutVars, sinkVars, sbVars, rxVars, md_pool,
                   frVars, obVars, feedVars, bk_cfg, bk_delays, ws_cfg, ws_attempt, ws_idle,
                   ws_rx, ws_sleep_left, ioVars>>

\* the check that follows the match on the message: last_frame was set just
\* before it; `elapsed` is the time the branch took since then
AfterMessage(elapsed) ==
    IF elapsed > ws_cfg.read_timeout THEN "closed_check" ELSE "select"

\* mutant: the Pong carries the default payload
PongFor_empty(payload) == WsFrame("Pong", "")

\* Message::Pong(payload.clone())
PongFor(payload) == WsFrame("Pong", payload)

\* select!: ws_stream.next() yields a message; the select! is biased, so the
\* heartbeat branch goes first when it is ready. Answering a Ping awaits the
\* sending of the Pong, which takes `took` and succeeds or not (`ponged`),
\* before the Ping is surfaced; a Close is surfaced as Closed
Message(msg, payload, took, ponged) ==
    /\ ws_pc = "select"
    /\ ~HeartbeatReady
    /\ msg = "ping" \/ (took = 0 /\ ponged /\ payload = "")
    /\ msg = "ping" => payload \in Payloads
    /\ msg \in {"data", "ping"} => Len(ws_in) < MaxFrames
    /\ IF msg \in {"data", "ping"}
       THEN /\ ws_lf_age' = took
            /\ ws_idle' = took
            /\ ws_pc' = AfterMessage(took)
            /\ ws_in' = Append(ws_in, WsFrame(msg, payload))
            /\ ws_out' = IF msg = "ping"
                         THEN Append(ws_out, SendCall(PongFor(payload), ponged))
                         ELSE ws_out
            /\ ws_events' = Surface(ws_events, WsFrame(msg, payload))
       ELSE /\ ws_pc' = "closed_check"
            /\ ws_events' = IF msg = "close"
                            THEN Surface(ws_events, WsFrame("Closed", ""))
                            ELSE ws_events
            /\ UNCHANGED <<ws_lf_age, ws_idle, ws_in, ws_out>>
    /\ ws_hb_age' = 0
    /\ UNCHANGED <<busVars, dispVars, shutVars, sinkVars, sbVars, rxVars, md_pool,
                   frVars, obVars, feedVars, bk_cfg, bk_delays, ws_cfg, ws_attempt, ws_rx,
                   ws_sleep_left>>

\* sender.is_closed()
IsClosed(rx) == ~rx

\* after the read loop, or a failed attempt: stop when the consumer dropped
\* the receiver, otherwise compute the backoff and sleep; the task ends in a
\* panic when compute_delay panics. The connection, if there was one, has been
\* dropped, and the record of its frames with it
ClosedCheck(noise) ==
    /\ ws_pc = "closed_check"
    /\ noise \in Noises(ws_cfg.backoff)
    /\ IF IsClosed(ws_rx)
       THEN ws_pc' = "stopped" /\ UNCHANGED ws_sleep_left
       ELSE IF mul_f64_panics(ws_cfg.backoff, ws_attempt)
       THEN ws_pc' = "panicked" /\ UNCHANGED ws_sleep_left
       ELSE /\ ws_sleep_left' = compute_delay(ws_cfg.backoff, ws_attempt, noise)
            /\ ws_pc' = "sleep"
    /\ ws_in' = <<>>
    /\ ws_out' = <<>>
    /\ ws_events' = <<>>
    /\ UNCHANGED <<busVars, dispVars, shutVars, sinkVars, sbVars, rxVars, md_pool,
                   frVars, obVars, feedVars, bk_cfg, bk_delays, ws_cfg, ws_attempt, ws_lf_age,
                   ws_hb_age, ws_idle, ws_rx>>

\* sleep(delay) completed
Wake ==
    /\ ws_pc = "sleep"
    /\ ws_sleep_left = 0
    /\ ws_pc' = "connect"
    /\ UNCHANGED <<busVars, dispVars, shutVars, sinkVars, sbVars, rxVars, md_pool,
                   frVars, obVars, feedVars, bk_cfg, bk_delays, ws_cfg, ws_attempt, ws_lf_age,
                   ws_hb_age, ws_idle, ws_rx, ws_sleep_left, ioVars>>

\* a unit of time passes while the worker waits in the select! or in the sleep
Tick ==
    /\ \/ ws_pc = "select"
       \/ ws_pc = "sleep" /\ ws_sleep_left > 0
    /\ IF ws_pc = "select"
       THEN /\ ws_lf_age' = Capped(ws_lf_age + 1)
            /\ ws_hb_age' = Capped(ws_hb_age + 1)
            /\ ws_idle' = Capped(ws_idle + 1)
            /\ UNCHANGED ws_sleep_left
       ELSE /\ ws_sleep_left' = ws_sleep_left - 1
            /\ UNCHANGED <<ws_lf_age, ws_hb_age, ws_idle>>
    /\ UNCHANGED <<busVars, dispVars, shutVars, sinkVars, sbVars, rxVars, md_pool,
                   frVars, obVars, feedVars, bk_cfg, bk_delays, ws_cfg, ws_pc, ws_attempt,
                   ws_rx, ioVars>>

\* the consumer drops the receiver
DropReceiver ==
    /\ ws_pc # "none"
    /\ ws_rx
    /\ ws_rx' = FALSE
    /\ UNCHANGED <<busVars, dispVars, shutVars, sinkVars, sbVars, rxVars, md_pool,
                   frVars, obVars, feedVars, bk_cfg, bk_delays, ws_cfg, ws_pc, ws_attempt,
                   ws_lf_age, ws_hb_age, ws_idle, ws_sleep_left, ioVars>>

----------------------------------------------------------------------------
(* Specifications *)

BodiesOf(t) == IF t = "signal" THEN SignalBodies ELSE {NoBody}

\* any of the producers publishes to any of the topics, `max` events in all
PublishAny(ps, ts, max) ==
    /\ next_seq <= max
    /\ \E p \in ps, t \in ts, mode \in PublishMode :
         \E prio \in InputPriority(t), body \in BodiesOf(t) :
             Publish(p, t, mode, prio, body)

ShutdownStep ==
    \/ \E c \in ShutdownCallers : ShutdownSwap(c)
    \/ \E c \in ShutdownCallers : ShutdownNotify(c)

\* the dispatcher with the core bridges, one producer and the shutdown callers
Next ==
    \/ PublishAny({"p1"}, Topics, MaxSeq)
    \/ PublishWake("p1")
    \/ PublishExpire("p1")
    \/ ShutdownStep
    \/ DispatcherStep

Spec == Init /\ [][Next]_vars

\* the dispatcher of the signal-to-order test: SignalToOrderBridge in Blocking
\* mode is the only handler, and an independent order receiver reads the bus
InitSignalOnly ==
    /\ BusIdle
    /\ SandboxIdle
    /\ RecvIdle
    /\ MetaIdle
    /\ PipelineIdle
    /\ FrameIdle
    /\ disp_pc = "init"
    /\ handlers = {"signal"}
    /\ closures = {}
    /\ bridge_mode = Blocking

NextSignalOnly ==
    \/ PublishAny({"p1"}, Topics, MaxSeq)
    \/ PublishWake("p1")
    \/ PublishExpire("p1")
    \/ ShutdownSwap("controller")
    \/ ShutdownNotify("controller")
    \/ DispatcherRun
    \/ SelectStart
    \/ SelectShutdown
    \/ \E t \in Topics : SelectRecv(t)
    \/ HandleBridge("signal")
    \/ BridgePublish
    \/ ExtRecv("r1", "order")

SpecSignalOnly == InitSignalOnly /\ [][NextSignalOnly]_vars

\* the bus alone: no dispatcher is built, producers and receivers share the topics
InitBus ==
    /\ BusIdle
    /\ SandboxIdle
    /\ RecvIdle
    /\ MetaIdle
    /\ PipelineIdle
    /\ FrameIdle
    /\ closures = {}
    /\ handlers = {}
    /\ bridge_mode = Blocking
    /\ disp_pc = "none"

\* the topics the producers and receivers of the bus specification use
BusTopics == {"order", "risk"}

NextBus ==
    \/ PublishAny(Producers, BusTopics, MaxBusSeq)
    \/ \E p \in Producers : PublishWake(p)
    \/ \E p \in Producers : PublishExpire(p)
    \/ \E r \in Receivers, t \in BusTopics : ExtRecv(r, t)
    \/ DropBus

SpecBus == InitBus /\ [][NextBus]_vars

\* the bus with one producer and receivers that use recv_timeout
NextRecv ==
    \/ PublishAny({"p1"}, BusTopics, MaxSeq)
    \/ PublishWake("p1")
    \/ PublishExpire("p1")
    \/ \E r \in Receivers, t \in BusTopics, D \in Durations : RecvTimeout(r, t, D)
    \/ \E r \in Receivers : RecvWake(r)
    \/ \E r \in Receivers : RecvExpire(r)

SpecRecv == InitBus /\ [][NextRecv]_vars

\* one sandbox instance, its strategy bridge and a reader of the signal topic
NextSandbox ==
    \/ EvaluateCall
    \/ HostLog
    \/ \E decodes \in BOOLEAN : HostEmitSignal(decodes)
    \/ ModuleTrap
    \/ \E timed_out \in BOOLEAN : EvaluateReturn(timed_out)
    \/ StrategyEventBridge_publish
    \/ ExtRecv("r1", "signal")

SpecSandbox == InitBus /\ [][NextSandbox]_vars

\* a producer of the signal topic beside a sandbox instance and its strategy bridge
NextEmit ==
    \/ PublishAny({"p1"}, {"signal"}, MaxSeq)
    \/ PublishWake("p1")
    \/ PublishExpire("p1")
    \/ EvaluateCall
    \/ HostEmitSignal(TRUE)
    \/ EvaluateReturn(FALSE)
    \/ StrategyEventBridge_publish
    \/ ExtRecv("r1", "signal")

SpecEmit == InitBus /\ [][NextEmit]_vars

\* the strategy bridge as the only producer of the signal topic; the bus and
\* its receivers may go away
NextBridge ==
    \/ EvaluateCall
    \/ \E priority \in {"High", "Normal"} : HostEmitSignalWith(TRUE, priority)
    \/ EvaluateReturn(FALSE)
    \/ StrategyEventBridge_publish
    \/ ExtRecv("r1", "signal")
    \/ DropBus

SpecBridge == InitBus /\ [][NextBridge]_vars

\* a dispatcher with the core bridges, built with any publish mode, as the
\* only consumer of the topics; a producer publishes signals and orders
InitReentrant ==
    /\ BusIdle
    /\ SandboxIdle
    /\ RecvIdle
    /\ md_pool = <<>>
    /\ PipelineIdle
    /\ FrameIdle
    /\ disp_pc = "init"
    /\ handlers = CoreBridges
    /\ closures = {}
    /\ bridge_mode \in PublishMode

NextReentrant ==
    \/ PublishAny({"p1"}, {"signal", "order"}, MaxSeq)
    \/ PublishWake("p1")
    \/ PublishExpire("p1")
    \/ DispatcherRun
    \/ SelectStart
    \/ \E t \in Topics : SelectRecv(t)
    \/ \E t \in Topics : HandleBridge(t)
    \/ BridgePublish
    \/ HandleExecution

SpecReentrant == InitReentrant /\ [][NextReentrant]_vars

\* a dispatcher with a ClosureHandler on every topic, each of which may fail
InitClosure ==
    /\ BusIdle
    /\ SandboxIdle
    /\ RecvIdle
    /\ MetaIdle
    /\ PipelineIdle
    /\ FrameIdle
    /\ disp_pc = "init"
    /\ handlers = Topics
    /\ closures = Topics
    /\ bridge_mode = Try

\* the results a closure returns
ClosureResults == {Ok, Upstream("closure")}

NextClosure ==
    \/ PublishAny({"p1"}, Topics, MaxSeq)
    \/ PublishWake("p1")
    \/ PublishExpire("p1")
    \/ ShutdownSwap("controller")
    \/ ShutdownNotify("controller")
    \/ DispatcherRun
    \/ SelectStart
    \/ SelectShutdown
    \/ \E t \in Topics : SelectRecv(t)
    \/ \E t \in Topics, result \in ClosureResults : HandleClosure(t, result)

SpecClosure == InitClosure /\ [][NextClosure]_vars

\* everything but the data pipeline is at rest
RestIdle ==
    /\ BusIdle
    /\ SandboxIdle
    /\ RecvIdle
    /\ md_pool = <<>>
    /\ FrameIdle
    /\ closures = {}
    /\ handlers = {}
    /\ bridge_mode = Blocking
    /\ disp_pc = "none"

----------------------------------------------------------------------------
(* Distributor (distributor.rs) *)

\* the record of one dispatch call that returned
DispatchRecord(e, result) == [ev |-> e, result |-> result]

\* the normalizer sends the next normalized event into the channel drain reads
Feed(body) ==
    /\ dist_open
    /\ dist_pc \in {"iter", "publishing"}
    /\ dist_fed < MaxFeed
    /\ dist_fed' = dist_fed + 1
    /\ dist_in' = Append(dist_in,
                         Event(EventMetadata_new("normalizer", "Normal", dist_fed + 1),
                               "market", body))
    /\ UNCHANGED <<busVars, dispVars, shutVars, sinkVars, sbVars, rxVars, md_pool,
                   frVars, obVars, wsVars, shVars, cbVars, dist_mode, dist_open, dist_pc, dist_cur,
                   dist_log>>

\* the last sender of that channel is dropped
CloseInput ==
    /\ dist_open
    /\ dist_open' = FALSE
    /\ UNCHANGED <<busVars, dispVars, shutVars, sinkVars, sbVars, rxVars, md_pool,
                   frVars, obVars, wsVars, shVars, cbVars, dist_mode, dist_in, dist_fed, dist_pc,
                   dist_cur, dist_log>>

\* mutant: a failed dispatch is reported and the loop goes on
drain_after_continue(result) == "iter"

\* drain, after dispatch(event) returned: Ok takes the next event of the
\* iterator, an error breaks out of the loop and drain returns
drain_after(result) == IF result = Ok THEN "iter" ELSE "returned"

\* dispatch returned: its result is on record and the event, if accepted, is on
\* the market topic
DispatchReturns(e, result) ==
    /\ dist_log' = Append(dist_log, DispatchRecord(e, result))
    /\ queue' = IF result = Ok THEN [queue EXCEPT !["market"] = Enqueue(@, e)] ELSE queue
    /\ accepted' = IF result = Ok THEN accepted \cup {e} ELSE accepted
    /\ dist_pc' = drain_after(result)
    /\ dist_cur' = NoEvent

\* receiver.iter() yields the next event and drain calls dispatch(event), which
\* is market_sender.publish(event, publish_mode)
DrainNext ==
    /\ dist_pc = "iter"
    /\ dist_in # <<>>
    /\ dist_in' = Tail(dist_in)
    /\ LET r == EventSender_publish("market", dist_mode)
       IN  IF r = Wait
           THEN /\ dist_pc' = "publishing"
                /\ dist_cur' = Head(dist_in)
                /\ UNCHANGED <<queue, accepted, dist_log>>
           ELSE DispatchReturns(Head(dist_in), r)
    /\ UNCHANGED <<bus_alive, next_seq, emitted, p_pc, pend, last_pub, dispVars,
                   shutVars, sinkVars, sbVars, rxVars, md_pool, frVars, obVars, wsVars,
                   shVars, cbVars,
                   dist_mode, dist_open, dist_fed>>

\* the publish drain waits in is woken: a slot is free, or the receivers are gone
DrainWake ==
    /\ dist_pc = "publishing"
    /\ LET a == SendAttempt(queue["market"])
       IN  /\ a # "Full"
           /\ DispatchReturns(dist_cur, IF a = "Sent" THEN Ok
                                        ELSE PublishError(dist_mode, a))
    /\ UNCHANGED <<bus_alive, next_seq, emitted, p_pc, pend, last_pub, dispVars,
                   shutVars, sinkVars, sbVars, rxVars, md_pool, frVars, obVars, wsVars,
                   shVars, cbVars,
                   dist_mode, dist_in, dist_open, dist_fed>>

\* the bounded wait of a Timeout(D) publish expires with the market topic full
DrainExpire ==
    /\ dist_pc = "publishing"
    /\ dist_mode.m = "Timeout"
    /\ SendAttempt(queue["market"]) = "Full"
    /\ DispatchReturns(dist_cur, PublishError(dist_mode, "Timeout"))
    /\ UNCHANGED <<bus_alive, next_seq, emitted, p_pc, pend, last_pub, dispVars,
                   shutVars, sinkVars, sbVars, rxVars, md_pool, frVars, obVars, wsVars,
                   shVars, cbVars,
                   dist_mode, dist_in, dist_open, dist_fed>>

\* receiver.iter() ends: the channel is empty and every sender is gone
DrainEnd ==
    /\ dist_pc = "iter"
    /\ dist_in = <<>>
    /\ ~dist_open
    /\ dist_pc' = "returned"
    /\ UNCHANGED <<busVars, dispVars, shutVars, sinkVars, sbVars, rxVars, md_pool,
                   frVars, obVars, wsVars, shVars, cbVars, dist_mode, dist_in, dist_open, dist_fed,
                   dist_cur, dist_log>>

\* Distributor::new(sender).with_mode(mode).drain(receiver) has been called
InitDist ==
    /\ RestIdle
    /\ BookIdle
    /\ WsIdle
    /\ StreamIdle
    /\ CoinbaseIdle
    /\ dist_mode \in PublishMode
    /\ dist_in = <<>>
    /\ dist_open = TRUE
    /\ dist_fed = 0
    /\ dist_pc = "iter"
    /\ dist_cur = NoEvent
    /\ dist_log = <<>>

NextDist ==
    \/ \E body \in SignalBodies : Feed(body)
    \/ CloseInput
    \/ DrainNext
    \/ DrainWake
    \/ DrainExpire
    \/ DrainEnd
    \/ ExtRecv("r1", "market")
    \/ DropBus

SpecDist == InitDist /\ [][NextDist]_vars

----------------------------------------------------------------------------
(* Exchange stream adapter (event-bus/exchange_bridges/mod.rs) *)

ExchangeIds == {"Coinbase", "Oanda"}

\* format!("exchange.{:?}", exchange)
ExchangeSource(exchange) ==
    CASE exchange = "Coinbase" -> "exchange.Coinbase"
      [] exchange = "Oanda" -> "exchange.Oanda"

\* tick symbols, as the pieces symbol.split('-') yields
Symbols == {<<"BTC", "USD">>, <<"BTCUSD">>}

\* a StreamMessage: Tick(tick), Error(text), OrderUpdate, or another variant
StreamMessage(kind, symbol, text) == [kind |-> kind, symbol |-> symbol, text |-> text]

StreamMessages ==
    {StreamMessage("Tick", symbol, "") : symbol \in Symbols}
        \cup {StreamMessage("Error", <<>>, "feed down"),
              StreamMessage("OrderUpdate", <<>>, ""),
              StreamMessage("Other", <<>>, "")}

\* the TradingPair handle derives from the symbol of a tick
TradingPair_of(symbol) ==
    [base |-> symbol[1],
     quote |-> IF Len(symbol) >= 2 THEN symbol[2] ELSE "?",
     symbol |-> symbol]

\* mutant: the event goes out with the default priority
emit_tick_event_normal(exchange, symbol, pair, n) ==
    Event(EventMetadata_new(ExchangeSource(exchange), "Normal", n), "market",
          [tick |-> symbol, pair |-> pair])

\* MarketEventEmitter::emit_tick: the MarketEvent it builds, n being the next
\* value of the global sequence
emit_tick_event(exchange, symbol, pair, n) ==
    Event(EventMetadata_new(ExchangeSource(exchange), "High", n), "market",
          [tick |-> symbol, pair |-> pair])

\* handle for a message that is no Tick: an Error becomes an upstream error,
\* every other message is traced and ignored
handle_other(message) ==
    IF message.kind = "Error" THEN Upstream(message.text) ELSE Ok

\* the record of one handle call that returned
HandleRecord(message, published, result) ==
    [message |-> message, published |-> published, result |-> result]

\* StreamMessageHandler::handle(message), up to its return or to the point
\* where the publish of emit_tick suspends
StreamHandle(message) ==
    /\ sh_pc = "idle"
    /\ Len(sh_log) < MaxStream
    /\ IF message.kind = "Tick"
       THEN LET e == emit_tick_event(sh_exchange, message.symbol,
                                     TradingPair_of(message.symbol), next_seq)
                r == EventSender_publish("market", sh_mode)
            IN  /\ next_seq' = next_seq + 1
                /\ emitted' = Append(emitted, Emission(e))
                /\ IF r = Wait
                   THEN /\ sh_pc' = "publishing"
                        /\ sh_cur' = <<message, e>>
                        /\ UNCHANGED <<queue, accepted, sh_log>>
                   ELSE /\ sh_log' = Append(sh_log, HandleRecord(message, <<e>>, r))
                        /\ queue' = IF r = Ok
                                    THEN [queue EXCEPT !["market"] = Enqueue(@, e)]
                                    ELSE queue
                        /\ accepted' = IF r = Ok THEN accepted \cup {e} ELSE accepted
                        /\ UNCHANGED <<sh_pc, sh_cur>>
       ELSE /\ sh_log' = Append(sh_log, HandleRecord(message, <<>>, handle_other(message)))
            /\ UNCHANGED <<queue, accepted, next_seq, emitted, sh_pc, sh_cur>>
    /\ UNCHANGED <<bus_alive, p_pc, pend, last_pub, dispVars, shutVars, sinkVars, sbVars,
                   rxVars, md_pool, frVars, obVars, wsVars, distVars, cbVars,
                   sh_exchange, sh_mode>>

\* the publish handle waits in returns: a slot is free, the receivers are gone,
\* or (expired) the bounded wait of Timeout(D) ran out with the topic full
StreamPublishReturns(expired) ==
    /\ sh_pc = "publishing"
    /\ LET a == SendAttempt(queue["market"])
           r == IF expired THEN PublishError(sh_mode, "Timeout")
                ELSE IF a = "Sent" THEN Ok ELSE PublishError(sh_mode, a)
       IN  /\ IF expired THEN sh_mode.m = "Timeout" /\ a = "Full" ELSE a # "Full"
           /\ sh_log' = Append(sh_log, HandleRecord(sh_cur[1], <<sh_cur[2]>>, r))
           /\ queue' = IF r = Ok
                       THEN [queue EXCEPT !["market"] = Enqueue(@, sh_cur[2])]
                       ELSE queue
           /\ accepted' = IF r = Ok THEN accepted \cup {sh_cur[2]} ELSE accepted
    /\ sh_pc' = "idle"
    /\ sh_cur' = <<>>
    /\ UNCHANGED <<bus_alive, next_seq, emitted, p_pc, pend, last_pub, dispVars,
                   shutVars, sinkVars, sbVars, rxVars, md_pool, frVars, obVars, wsVars,
                   distVars, cbVars, sh_exchange, sh_mode>>

\* StreamMessageHandler::new(exchange, MarketEventEmitter::new(exchange, sender, mode))
InitStream ==
    /\ RestIdle
    /\ BookIdle
    /\ WsIdle
    /\ DistIdle
    /\ CoinbaseIdle
    /\ sh_exchange \in ExchangeIds
    /\ sh_mode \in PublishMode
    /\ sh_pc = "idle"
    /\ sh_cur = <<>>
    /\ sh_log = <<>>

NextStream ==
    \/ \E message \in StreamMessages : StreamHandle(message)
    \/ \E expired \in BOOLEAN : StreamPublishReturns(expired)
    \/ ExtRecv("r1", "market")
    \/ DropBus

SpecStream == InitStream /\ [][NextStream]_vars

----------------------------------------------------------------------------
(* Coinbase market stream worker (exchange-connectors/coinbase.rs) *)

\* the smaller of two numbers (min)
Min(a, b) == IF a <= b THEN a ELSE b

\* websocket_backoff(attempt): (400.0 * 1.6^min(attempt, 8)).min(10_000.0) as u64,
\* in milliseconds; 400 * 1.6^n is written 16 * 8^n / 5^(n-2)
websocket_backoff(attempt) ==
    LET n == Min(attempt, 8)
        millis == IF n <= 2 THEN 16 * powi(8, n) * powi(5, 2 - n)
                  ELSE (16 * powi(8, n)) \div powi(5, n - 2)
    IN  Min(millis, 10000)

\* what the worker did since its last connect_async call
CbStep(step, delay) == [step |-> step, delay |-> delay]

\* what stream.next() yields in the read loop
CbMessages == {"text", "ping", "close", "error", "end"}

\* after stream.send(subscribe): Ok enters the read loop, an error is warned about
\* and `continue` goes back to the top of the outer loop
AfterSubscription(subscribed) == IF subscribed THEN "read" ELSE "connect"

\* top of the loop: attempt is incremented and connect_async is awaited; on
\* success attempt is reset and the subscription is sent
CbConnect(ok, subscribed) ==
    /\ cb_pc = "connect"
    /\ cb_connects < MaxConnects
    /\ ok \/ subscribed
    /\ cb_connects' = cb_connects + 1
    /\ cb_since' = <<>>
    /\ IF ok
       THEN /\ cb_attempt' = 0
            /\ cb_pc' = AfterSubscription(subscribed)
       ELSE /\ cb_attempt' = cb_attempt + 1
            /\ cb_pc' = "closed_check"
    /\ UNCHANGED <<busVars, dispVars, shutVars, sinkVars, sbVars, rxVars, md_pool,
                   frVars, obVars, wsVars, distVars, shVars, cb_rx>>

\* the read loop takes a message: a text or binary frame is handled, a Ping is
\* answered (a failed Pong breaks), Close, an error and the end of the stream
\* leave the loop; after a message that did not leave it, the worker returns
\* when the subscriber dropped the receiver
CbMessage(msg, ponged) ==
    /\ cb_pc = "read"
    /\ msg = "ping" \/ ponged
    /\ cb_pc' = IF msg \in {"close", "error", "end"} \/ ~ponged THEN "closed_check"
                ELSE IF ~cb_rx THEN "stopped"
                ELSE "read"
    /\ UNCHANGED <<busVars, dispVars, shutVars, sinkVars, sbVars, rxVars, md_pool,
                   frVars, obVars, wsVars, distVars, shVars, cb_attempt, cb_rx,
                   cb_connects, cb_since>>

\* after the read loop or a failed attempt: return when the subscriber dropped
\* the receiver, otherwise sleep(websocket_backoff(attempt))
CbClosedCheck ==
    /\ cb_pc = "closed_check"
    /\ cb_pc' = IF ~cb_rx THEN "stopped" ELSE "sleep"
    /\ cb_since' = Append(cb_since, CbStep("check", 0))
    /\ UNCHANGED <<busVars, dispVars, shutVars, sinkVars, sbVars, rxVars, md_pool,
                   frVars, obVars, wsVars, distVars, shVars, cb_attempt, cb_rx,
                   cb_connects>>

\* sleep(delay) completed
CbWake ==
    /\ cb_pc = "sleep"
    /\ cb_pc' = "connect"
    /\ cb_since' = Append(cb_since, CbStep("sleep", websocket_backoff(cb_attempt)))
    /\ UNCHANGED <<busVars, dispVars, shutVars, sinkVars, sbVars, rxVars, md_pool,
                   frVars, obVars, wsVars, distVars, shVars, cb_attempt, cb_rx,
                   cb_connects>>

\* the subscriber drops the receiver start_market_stream returned
CbDropReceiver ==
    /\ cb_pc # "none"
    /\ cb_rx
    /\ cb_rx' = FALSE
    /\ UNCHANGED <<busVars, dispVars, shutVars, sinkVars, sbVars, rxVars, md_pool,
                   frVars, obVars, wsVars, distVars, shVars, cb_pc, cb_attempt,
                   cb_connects, cb_since>>

\* start_market_stream(symbols) spawned the worker and returned the receiver
InitCoinbase ==
    /\ RestIdle
    /\ BookIdle
    /\ WsIdle
    /\ DistIdle
    /\ StreamIdle
    /\ cb_pc = "connect"
    /\ cb_attempt = 0
    /\ cb_rx = TRUE
    /\ cb_connects = 0
    /\ cb_since = <<>>

NextCoinbase ==
    \/ \E ok \in BOOLEAN, subscribed \in BOOLEAN : CbConnect(ok, subscribed)
    \/ \E msg \in CbMessages, ponged \in BOOLEAN : CbMessage(msg, ponged)
    \/ CbClosedCheck
    \/ CbWake
    \/ CbDropReceiver

SpecCoinbase == InitCoinbase /\ [][NextCoinbase]_vars

\* compute_delay on a policy, for attempts 1, 2, ...
InitBackoff ==
    /\ RestIdle
    /\ BookIdle
    /\ FeedIdle
    /\ bk_cfg \in BackoffConfigs
    /\ bk_delays = <<>>
    /\ ws_cfg = NoWebSocket
    /\ ws_pc = "none"
    /\ ws_attempt = 0
    /\ ws_lf_age = 0
    /\ ws_hb_age = 0
    /\ ws_idle = 0
    /\ ws_rx = FALSE
    /\ ws_sleep_left = 0
    /\ ws_in = <<>>
    /\ ws_out = <<>>
    /\ ws_events = <<>>

NextBackoff == \E noise \in 0..2 : ComputeDelay(noise)

SpecBackoff == InitBackoff /\ [][NextBackoff]_vars

\* spawn_stream(config): the worker starts, the consumer holds the receiver
InitWs ==
    /\ RestIdle
    /\ BookIdle
    /\ FeedIdle
    /\ bk_cfg = NoBackoff
    /\ bk_delays = <<>>
    /\ ws_cfg \in WebSocketConfigs
    /\ ws_pc = "connect"
    /\ ws_attempt = 0
    /\ ws_lf_age = 0
    /\ ws_hb_age = 0
    /\ ws_idle = 0
    /\ ws_rx = TRUE
    /\ ws_sleep_left = 0
    /\ ws_in = <<>>
    /\ ws_out = <<>>
    /\ ws_events = <<>>

\* the steps of the worker task
WorkerStep ==
    \/ \E ok \in BOOLEAN, sent \in [DOMAIN on_connect -> BOOLEAN] : Connect(ok, sent)
    \/ \E sent \in BOOLEAN : Heartbeat(sent)
    \/ \E noise \in 0..2 : ClosedCheck(noise)
    \/ Wake

NextWs ==
    \/ WorkerStep
    \/ \E msg \in Messages, payload \in Payloads \cup {""}, took \in 0..Horizon,
          ponged \in BOOLEAN : Message(msg, payload, took, ponged)
    \/ Tick
    \/ DropReceiver

\* the runtime keeps polling the worker task and time keeps passing; upstream
\* and the consumer owe nothing
SpecWs ==
    /\ InitWs
    /\ [][NextWs]_vars
    /\ WF_vars(WorkerStep)
    /\ WF_vars(Tick)

NextBook == \E update \in Updates : LevelTwoBook_apply(update)

SpecBook == InitBus /\ [][NextBook]_vars

\* a typed event, or a frame built from parts, is handed in
InitFrame ==
    /\ BusIdle
    /\ SandboxIdle
    /\ RecvIdle
    /\ MetaIdle
    /\ PipelineIdle
    /\ handlers = {}
    /\ closures = {}
    /\ bridge_mode = Blocking
    /\ disp_pc = "none"
    /\ \/ fr_pc = "event" /\ fr_event \in EventInputs /\ fr_frame = NoFrame
       \/ fr_pc = "frame" /\ fr_event = NoTyped /\ fr_frame \in FrameInputs
    /\ fr_decoded = NoDecoded
    /\ fr_reenc = <<>>

NextFrame ==
    \/ \E order \in AllOrders : ToFrame(order)
    \/ \E X \in Topics : FromFrame(X)
    \/ \E order \in AllOrders : Reencode(order)

SpecFrame == InitFrame /\ [][NextFrame]_vars

\* metadata values built by new() and by child() on values built before
NextMeta ==
    \/ \E source \in MetaSources, priority \in MetaPriorities : MetaNew(source, priority)
    \/ \E i \in 1..MaxMeta, source \in MetaSources, priority \in MetaPriorities :
          MetaChild(i, source, priority)

SpecMeta == InitBus /\ [][NextMeta]_vars

----------------------------------------------------------------------------
(* Helpers of the properties *)

RECURSIVE CountIn(_, _)
\* occurrences of x in the sequence q
CountIn(q, x) ==
    IF q = <<>> THEN 0
    ELSE (IF Head(q) = x THEN 1 ELSE 0) + CountIn(Tail(q), x)

Indices(q) == 1..Len(q)

----------------------------------------------------------------------------
(* C1 *)

\* C1: once shutdown has been requested, the run loop exits and run returns
\* Ok(()): a state in which shutdown was requested and nothing can happen any
\* more, with no error having ended run, is a state where run returned Ok(()).
C1_ShutdownEndsRun ==
    (shutdown_flag /\ ~(ENABLED Next) /\ disp_pc # "done_err") => disp_pc = "done_ok"

----------------------------------------------------------------------------
(* C2 *)

\* C2: the signals emitted during an evaluate call that failed with Timeout
\* are in no StrategyDecision any call of the instance returns.
C2_TimedOutSignalsNeverReturned ==
    \A i \in Indices(sb_results) :
        sb_results[i].kind = "Ok" =>
            \A k \in Indices(sb_results[i].signals) :
                sb_results[i].signals[k].label \notin sb_stale

----------------------------------------------------------------------------
(* C3 *)

OrderEventsOf(q, o) ==
    {i \in Indices(q) : /\ q[i].kind = "order"
                        /\ q[i].src = "event_bus.signal_to_order"
                        /\ q[i].corr = o.corr
                        /\ q[i].body = o.order}

\* C3: with SignalToOrderBridge as the only handler, every accepted signal
\* yields exactly one OrderEvent, which the independent order receiver gets:
\* the order is about to be published, or waits on the order topic, or has
\* been received by that receiver, with the signal's fields and correlation.
C3_OrderReachesReceiver ==
    \A k \in Indices(om_orders) :
        LET o == om_orders[k]
            pending == IF disp_pc = "publishing" /\ out_event.corr = o.corr
                       THEN 1 ELSE 0
        IN  pending + Cardinality(OrderEventsOf(queue["order"], o))
                    + Cardinality(OrderEventsOf(ext_log["r1"], o)) = 1

----------------------------------------------------------------------------
(* C4 *)

InHandler(e) == IF disp_pc = "handling" /\ cur = e THEN 1 ELSE 0

----------------------------------------------------------------------------
(* C5 *)

\* the dispatcher takes an event from topic t in this step
Takes(t) ==
    /\ disp_pc = "waiting"
    /\ queue[t] # <<>>
    /\ disp_log' = Append(disp_log, Head(queue[t]))

\* C5: a pending risk event is handed to its handler before the pending
\* events of lower priority on the other topics.
C5_RiskBeforeLowerPriority ==
    [][\A t \in Topics \ {"risk"} :
          (Takes(t) /\ queue["risk"] # <<>>) =>
              PriorityRank(Head(queue["risk"]).prio)
                  <= PriorityRank(Head(queue[t]).prio)]_vars

----------------------------------------------------------------------------
(* C6 *)

\* a publish call returns in this step
Returns == last_pub' # last_pub

\* C6: a publish call in any mode either puts the event on its topic and
\* reports success, or returns an error and leaves the queues unchanged:
\* ChannelSend for a full (Try) or disconnected queue, Timeout(D) for a wait
\* of a Timeout(D) publish that expired on a full queue.
C6_PublishNeverDropsSilently ==
    [][Returns =>
          LET r == last_pub'
              t == r.topic
          IN  \/ /\ r.result = Ok
                 /\ queue' = [queue EXCEPT ![t] = Append(@, r.ev)]
              \/ /\ r.result.kind = "ChannelSend"
                 /\ queue' = queue
                 /\ (r.mode = Try /\ IsFull(queue[t])) \/ ~ReceiversLive
              \/ /\ r.result = Timeout(r.mode.d)
                 /\ r.mode.m = "Timeout"
                 /\ queue' = queue
                 /\ IsFull(queue[t])]_vars

C6_Witness ==
    /\ last_pub.result.kind = "Timeout"
    /\ last_pub.ev \notin accepted

----------------------------------------------------------------------------
(* C7 *)

\* C7: a receiver that gets two events one producer published to one topic
\* gets them in the order in which the producer published them.
C7_FifoPerProducer ==
    \A r \in Receivers :
        \A i, j \in Indices(ext_log[r]) :
            (/\ i < j
             /\ ext_log[r][i].src = ext_log[r][j].src
             /\ ext_log[r][i].kind = ext_log[r][j].kind)
                => ext_log[r][i].seq < ext_log[r][j].seq

C7_Witness ==
    \E r \in Receivers :
        \E i, j \in Indices(ext_log[r]) :
            /\ i < j
            /\ ext_log[r][i].src = ext_log[r][j].src
            /\ ext_log[r][i].kind = ext_log[r][j].kind
            /\ \E k \in Indices(ext_log[r]) : ext_log[r][k].src # ext_log[r][i].src
            /\ \E r2 \in Receivers \ {r} : ext_log[r2] # <<>>

----------------------------------------------------------------------------
(* C8 *)

\* C8: a publish to a topic that has a free slot completes at once and
\* succeeds in every mode, whatever the state of the other topics: the
\* producer is not suspended and the event is on the topic.
C8_TopicsIndependent ==
    [][\A p \in Producers :
          /\ (p_pc[p] = "idle" /\ p_pc'[p] = "waiting")
                => IsFull(queue[pend'[p].topic])
          /\ (/\ p_pc[p] = "idle"
              /\ Returns
              /\ last_pub'.by = p
              /\ ReceiversLive
              /\ ~IsFull(queue[last_pub'.topic]))
                => /\ last_pub'.result = Ok
                   /\ queue'[last_pub'.topic]
                          = Append(queue[last_pub'.topic], last_pub'.ev)]_vars

C8_Witness ==
    /\ last_pub.result = Ok
    /\ \E p \in Producers :
         /\ p_pc[p] = "waiting"
         /\ pend[p].topic # last_pub.topic
         /\ pend[p].ev.seq < last_pub.ev.seq
         /\ IsFull(queue[pend[p].topic])

----------------------------------------------------------------------------
(* C9 *)

\* C9: no topic ever holds more events than its capacity.
C9_QueueWithinCapacity == \A t \in Topics : Len(queue[t]) <= Capacity

C9_Witness ==
    \E t \in Topics :
        /\ Len(queue[t]) = Capacity
        /\ \E p \in Producers :
             p_pc[p] = "waiting" /\ pend[p].topic = t /\ pend[p].mode = Blocking

----------------------------------------------------------------------------
(* C10 *)

\* C10: a Try publish never waits; on a full queue it returns
\* ChannelSend("channel full") and on a channel without receivers
\* ChannelSend("channel disconnected"), and the event is not enqueued.
C10_TryFailsFast ==
    [][/\ \A p \in Producers : p_pc'[p] = "waiting" => pend'[p].mode # Try
       /\ (Returns /\ last_pub'.mode = Try) =>
             LET r == last_pub'
                 full == ReceiversLive /\ IsFull(queue[r.topic])
             IN  /\ full <=> r.result = ChannelSend("channel full")
                 /\ ~ReceiversLive <=> r.result = ChannelSend("channel disconnected")
                 /\ r.result # Ok => queue' = queue /\ r.ev \notin accepted']_vars

C10_Witness ==
    /\ last_pub.mode = Try
    /\ last_pub.result = ChannelSend("channel full")
    /\ \A t \in Topics : \A i \in Indices(queue[t]) : queue[t][i] # last_pub.ev

----------------------------------------------------------------------------
(* C11 *)

\* C11: every bounded wait that expired reports the duration that was waited: a
\* Timeout(D) publish fails with Timeout(D), and a recv_timeout(D) fails with
\* a Timeout error carrying D.
C11_TimeoutCarriesDuration ==
    /\ last_pub.result.kind = "Timeout" => last_pub.result = Timeout(last_pub.mode.d)
    /\ last_recv.result.kind = "Timeout" => last_recv.result = Timeout(last_recv.dur)

----------------------------------------------------------------------------
(* C12 *)

\* C12: of any two events emitted in the process, by any producer, the one
\* emitted first carries the strictly smaller metadata.sequence.
C12_SequenceMonotone ==
    \A i, j \in Indices(emitted) : i < j => emitted[i].seq < emitted[j].seq

----------------------------------------------------------------------------
(* C13 *)

RECURSIVE RootOf(_)
\* the root of the chain of child() calls that built md_pool[k]
RootOf(k) == IF md_pool[k].from = 0 THEN k ELSE RootOf(md_pool[k].from)

\* C13: a child m' of m has m's correlation_id, m's span_id as parent_span_id
\* and a span_id other than m's; along any chain of child() calls the
\* correlation_id is the root's; child() leaves m as it was.
C13_ChildKeepsCorrelation ==
    /\ [](\A k \in Indices(md_pool) :
            md_pool[k].from # 0 =>
                LET c == md_pool[k].meta
                    m == md_pool[md_pool[k].from].meta
                IN  /\ c.corr = m.corr
                    /\ c.parent = m.span
                    /\ c.span # m.span
                    /\ c.corr = md_pool[RootOf(k)].meta.corr)
    /\ [][\A i \in Indices(md_pool) : md_pool'[i] = md_pool[i]]_vars

C13_Witness ==
    \E k \in Indices(md_pool) :
        /\ md_pool[k].from # 0
        /\ md_pool[md_pool[k].from].from # 0
        /\ \E r \in Indices(md_pool) : md_pool[r].from = 0 /\ r # RootOf(k)

----------------------------------------------------------------------------
(* C14 *)

\* events the core bridges emitted: published, or being published
BridgeEmitted ==
    {e \in accepted \cup {out_event} :
        e.src \in {"event_bus.signal_to_order", "event_bus.order_execution_bridge"}}

\* the event of the given kind the dispatcher received that e was derived from
ParentsOf(e, kind) ==
    {i \in Indices(disp_log) : disp_log[i].kind = kind /\ disp_log[i].span = e.parent}

\* C14: an OrderEvent of SignalToOrderBridge is the child of the signal it was
\* made for and an ExecutionEvent of OrderExecutionBridge the child of its
\* order event: same correlation_id, parent_span_id = the parent's span_id, a
\* span_id of its own; so along signal -> order -> execution the signal's
\* correlation_id is kept.
C14_BridgeLineage ==
    /\ \A e \in BridgeEmitted :
         LET kind == IF e.kind = "order" THEN "signal" ELSE "order"
         IN  /\ ParentsOf(e, kind) # {}
             /\ \A i \in ParentsOf(e, kind) :
                  /\ e.corr = disp_log[i].corr
                  /\ e.span # disp_log[i].span
    /\ \A e1, e2 \in accepted \cup BridgeEmitted : e1.span = e2.span => e1 = e2

C14_Witness ==
    \E x \in accepted : \E o \in accepted : \E i \in Indices(disp_log) :
        /\ x.src = "event_bus.order_execution_bridge"
        /\ o.src = "event_bus.signal_to_order"
        /\ x.parent = o.span
        /\ disp_log[i].kind = "signal"
        /\ o.parent = disp_log[i].span
        /\ x.corr = disp_log[i].corr

----------------------------------------------------------------------------
(* C15 *)

\* the handler invocations of the core bridges that returned
BridgeRuns == {i \in Indices(h_log) : h_log[i].topic \in {"signal", "order"}}

\* the events a bridge emitted for the event it handled
ChildrenOf(e) == {x \in BridgeEmitted : x.parent = e.span}

\* C15: for each event a bridge calls each collaborator operation at most once
\* and handles the event once (no retry); a downstream event exists only if
\* every collaborator call succeeded; after a failed call the handler returned
\* Upstream and nothing was emitted or published downstream.
C15_BridgePublishesOnlyOnSuccess ==
    /\ \A a, b \in Indices(calls) : calls[a].op = calls[b].op => a = b
    /\ \A i, j \in BridgeRuns : h_log[i].ev = h_log[j].ev => i = j
    /\ \A i \in BridgeRuns :
         LET h == h_log[i]
             failed == \E k \in Indices(h.calls) : ~h.calls[k].ok
         IN  /\ \A a, b \in Indices(h.calls) : h.calls[a].op = h.calls[b].op => a = b
             /\ failed <=> h.result.kind = "Upstream"
             /\ failed => ChildrenOf(h.ev) = {}
             /\ ~failed => /\ Len(h.calls) = Len(CollaboratorCalls(h.topic))
                           /\ Cardinality(ChildrenOf(h.ev)) = 1
    /\ \A x \in BridgeEmitted :
         \/ /\ disp_pc = "publishing"
            /\ x = out_event
            /\ x.parent = cur.span
            /\ Len(calls) = Len(CollaboratorCalls(cur_topic))
            /\ \A k \in Indices(calls) : calls[k].ok
         \/ \E i \in BridgeRuns :
              /\ x.parent = h_log[i].ev.span
              /\ \A k \in Indices(h_log[i].calls) : h_log[i].calls[k].ok
              /\ x \in accepted <=> h_log[i].result = Ok

C15_Witness ==
    /\ \E i \in BridgeRuns : h_log[i].result = Ok /\ h_log[i].topic = "signal"
    /\ \E i \in BridgeRuns :
         /\ h_log[i].result = Upstream("place_order")
         /\ h_log[i].ev.src = "event_bus.signal_to_order"

----------------------------------------------------------------------------
(* C16 *)

\* C16: when a handler of any topic returns an error e, run ends with Err(e):
\* the failed invocation is the last one, no further event is received or
\* handled, and the result of run stays e.
C16_HandlerErrorEndsRun ==
    /\ [](\A i \in Indices(h_log) :
            h_log[i].result # Ok =>
                /\ i = Len(h_log)
                /\ disp_pc = "done_err"
                /\ disp_err = h_log[i].result)
    /\ [][disp_pc = "done_err" => UNCHANGED <<disp_pc, disp_err, h_log, disp_log>>]_vars

C16_Witness ==
    /\ disp_pc = "done_err"
    /\ Len(h_log) >= 2
    /\ h_log[1].result = Ok
    /\ h_log[Len(h_log)].topic = "market"
    /\ disp_err = Upstream("closure")
    /\ \E t \in Topics \ {"market"} : queue[t] # <<>>

----------------------------------------------------------------------------
(* C17 *)

RECURSIVE OfKind(_, _)
\* the events of kind t in the sequence q, in order
OfKind(q, t) ==
    IF q = <<>> THEN <<>>
    ELSE (IF Head(q).kind = t THEN <<Head(q)>> ELSE <<>>) \o OfKind(Tail(q), t)

\* the events enqueued on topic t so far, in the order of the dispatcher's view:
\* those it received, then those still queued
Seen(t) == OfKind(disp_log, t) \o queue[t]

\* the events the handler of topic t was invoked on, in order
Invoked(t) ==
    OfKind([i \in Indices(h_log) |-> h_log[i].ev], t)
        \o (IF disp_pc \in {"handling", "publishing"} /\ cur_topic = t
            THEN <<cur>> ELSE <<>>)

\* C17: within a topic the dispatcher receives, and its handler is invoked on,
\* the events in the order in which they were enqueued: an enqueue extends the
\* topic's sequence at its end, a receive leaves the sequence as it is, and the
\* handler's invocations follow the receives, whatever the other topics do.
C17_HandlerFifoPerTopic ==
    /\ [](\A t \in handlers : Invoked(t) = OfKind(disp_log, t))
    /\ [][\A t \in Topics :
            \/ Seen(t)' = Seen(t)
            \/ /\ Len(Seen(t)') = Len(Seen(t)) + 1
               /\ SubSeq(Seen(t)', 1, Len(Seen(t))) = Seen(t)
               /\ queue'[t] = Append(queue[t], Seen(t)'[Len(Seen(t)')])]_vars

C17_Witness ==
    \E i, j, k \in Indices(h_log) :
        /\ i < j /\ j < k
        /\ h_log[i].topic = h_log[k].topic
        /\ h_log[j].topic # h_log[i].topic
        /\ h_log[j].ev.seq > h_log[k].ev.seq

----------------------------------------------------------------------------
(* C18 *)

\* the frame at hand is to_frame(fr_event) and was decoded as its own type
RoundTrip ==
    /\ fr_pc \in {"decoded", "reencoded"}
    /\ fr_event # NoTyped
    /\ fr_decoded.expected = fr_event.kind

----------------------------------------------------------------------------
(* C19 *)

\* a frame was decoded as an event type of another kind
WrongKind ==
    /\ fr_pc \in {"decoded", "reencoded"}
    /\ fr_decoded.expected # fr_frame.kind

\* C19: X::from_frame on a frame of another kind returns
\* KindMismatch{expected: X's kind, actual: the frame's kind}, whatever the
\* payload bytes are; it is never a Deserialization error.
C19_KindMismatchFirst ==
    WrongKind =>
        fr_decoded = Decoded("KindMismatch", fr_decoded.expected, fr_frame.kind, NoTyped)

C19_Witness ==
    /\ WrongKind
    /\ fr_decoded.res = "KindMismatch"
    /\ fr_decoded.expected = "risk"
    /\ fr_decoded.actual = "signal"
    /\ ~deserialize("risk", fr_frame.payload).ok

----------------------------------------------------------------------------
(* C20 *)

\* C20: decoding a frame produced by to_frame and encoding the decoded event
\* again yields the frame's payload bytes, byte for byte, also for payloads
\* whose string-to-string map holds two or more entries.
C20_ReencodeByteEqual ==
    (fr_pc = "reencoded" /\ fr_event # NoTyped) => fr_reenc = fr_frame.payload

----------------------------------------------------------------------------
(* C21 *)

\* the map of a side of the book
BookSide(sd) == IF sd = "Buy" THEN ob_bids ELSE ob_asks

\* the prices whose last update on the side had a positive quantity
Live(sd) == {p \in Prices : ob_last[sd][p] > 0}

\* C21: after any sequence of updates, a price is present on a side exactly
\* when its last update there had a quantity q > 0, and then with size q
\* (replaced, not accumulated); best(true) is the highest present price with
\* its size, best(false) the lowest, and None on an empty side.
C21_BookLevels ==
    \A sd \in Sides :
        /\ DOMAIN BookSide(sd) = Live(sd)
        /\ \A p \in Live(sd) : BookSide(sd)[p] = ob_last[sd][p]
        /\ Live(sd) = {} => /\ best(BookSide(sd), TRUE) = None
                            /\ best(BookSide(sd), FALSE) = None
        /\ \A p \in Live(sd) :
              /\ (\A o \in Live(sd) : o <= p)
                    => best(BookSide(sd), TRUE) = <<p, ob_last[sd][p]>>
              /\ (\A o \in Live(sd) : o >= p)
                    => best(BookSide(sd), FALSE) = <<p, ob_last[sd][p]>>

C21_Witness ==
    /\ ob_upd.side = "Buy"
    /\ ob_upd.quantity = 1
    /\ ob_upd.price = 2
    /\ ob_bids = (2 :> 1) @@ (3 :> 2)
    /\ ob_last["Buy"][1] = 0
    /\ best(ob_bids, TRUE) = <<3, 2>>
    /\ best(ob_bids, FALSE) = <<2, 1>>
    /\ DOMAIN ob_asks = {}
    /\ ob_last["Sell"][1] = 0

----------------------------------------------------------------------------
(* C22 *)

\* C22: every apply returns a delta for the update's pair with exactly one
\* level {price, size} of the update on the updated side, nothing on the other
\* side, and the update's sequence; a removal is a level of size 0.
C22_DeltaCarriesUpdate ==
    ob_upd # NoUpdate =>
        LET level == <<[price |-> ob_upd.price, size |-> ob_upd.quantity]>>
        IN  /\ ob_ret.pair = ob_upd.pair
            /\ ob_ret.sequence = ob_upd.sequence
            /\ ob_upd.side = "Buy" => ob_ret.bid_updates = level /\ ob_ret.ask_updates = <<>>
            /\ ob_upd.side = "Sell" => ob_ret.ask_updates = level /\ ob_ret.bid_updates = <<>>

C22_Witness ==
    /\ ob_upd.side = "Sell"
    /\ ob_upd.quantity = 0
    /\ ob_last["Sell"][ob_upd.price] = 0
    /\ ob_ret.ask_updates = <<[price |-> ob_upd.price, size |-> 0]>>
    /\ ob_ret.bid_updates = <<>>
    /\ ob_ret.sequence = 9

----------------------------------------------------------------------------
(* C23 *)

\* C23: the delay computed for attempt n+1 is at least the delay computed for
\* attempt n, for every n >= 1, and every computed delay is at most
\* max + jitter, also when a jitter is configured and the exponential term has
\* reached max.
C23_BackoffMonotoneBounded ==
    /\ \A n \in Indices(bk_delays) :
           n + 1 \in Indices(bk_delays) => bk_delays[n + 1] >= bk_delays[n]
    /\ \A n \in Indices(bk_delays) :
           bk_delays[n] <= bk_cfg.max + (IF bk_cfg.jitter = Absent THEN 0 ELSE bk_cfg.jitter)

----------------------------------------------------------------------------
(* C24 *)

\* the connection is established and upstream has sent nothing for longer
\* than read_timeout
Stalled == ws_pc = "select" /\ ws_idle > ws_cfg.read_timeout

\* C24: when no frame arrives from upstream for longer than read_timeout on an
\* established connection, the worker eventually leaves the read loop to
\* reconnect, with or without a heartbeat and also when upstream stays silent
\* (a frame that arrives after all ends the stall as well).
C24_StallTriggersReconnect == Stalled ~> ~Stalled

----------------------------------------------------------------------------
(* C25 *)

\* C25: once the consumer has dropped the receiver, the worker task eventually
\* terminates, also when the connection stays healthy.
C25_WorkerStopsAfterDrop == (ws_pc # "none" /\ ~ws_rx) ~> ws_pc = "stopped"

----------------------------------------------------------------------------
(* C26 *)

RECURSIVE DecidedSignals(_)
\* the payloads of the decisions returned so far, in order
DecidedSignals(results) ==
    IF results = <<>> THEN <<>>
    ELSE DecidedSignals(SubSeq(results, 1, Len(results) - 1))
            \o results[Len(results)].signals

\* the events that were put on the signal topic, in order
OnSignalTopic == ext_log["r1"] \o queue["signal"]

\* a turn of the bridge's loop whose publish fails
BridgePublishFails ==
    /\ sb_pc = "publish"
    /\ sb_pc' = "idle"
    /\ last_pub'.by = "strategy"
    /\ last_pub'.result # Ok

\* C26: publish(decision) puts on the signal topic one SignalEvent per payload
\* of decision.signals, in their order, each with source strategy.<name>, the
\* payload's priority and the payload unchanged; when a publish fails the error
\* is returned, the signals before it stay published and those after it are
\* not published.
C26_BridgePublishesEachSignal ==
    /\ [](/\ Len(OnSignalTopic) <= Len(DecidedSignals(sb_results))
          /\ \A i \in Indices(OnSignalTopic) :
                /\ OnSignalTopic[i].body = DecidedSignals(sb_results)[i]
                /\ OnSignalTopic[i].kind = "signal"
                /\ OnSignalTopic[i].src = "strategy.test"
                /\ OnSignalTopic[i].prio = OnSignalTopic[i].body.prio
          /\ bus_alive =>
                Len(OnSignalTopic) + Len(sb_todo) = Len(DecidedSignals(sb_results)))
    /\ [][BridgePublishFails =>
            /\ last_pub'.result = from_send_error("Disconnected")
            /\ OnSignalTopic' = OnSignalTopic
            /\ sb_todo' = <<>>]_vars

C26_Witness ==
    /\ ~bus_alive
    /\ last_pub.by = "strategy"
    /\ last_pub.result # Ok
    /\ Len(OnSignalTopic) = 1
    /\ Len(sb_results) = 1
    /\ Len(sb_results[1].signals) = 2
    /\ OnSignalTopic[1].prio = "Normal"
    /\ sb_results[1].signals[2].prio = "High"

----------------------------------------------------------------------------
(* C27 *)

\* a bridge on the dispatcher loop is publishing to a topic that only this
\* dispatcher consumes
PublishesToOwnTopic == disp_pc = "publishing" /\ out_event.kind \in handlers

\* C27: a bridge's publish on the dispatcher loop to a full topic that only
\* the dispatcher consumes returns (at once, or when its timeout expires), so
\* the loop is never held inside the handler, for every publish mode.
C27_BridgePublishReturns ==
    PublishesToOwnTopic =>
        \/ EventSender_publish(out_event.kind, bridge_mode) # Wait
        \/ bridge_mode.m = "Timeout"

----------------------------------------------------------------------------
(* C28 *)

\* the received events that were handed to a handler
Dispatched == {i \in Indices(disp_log) : disp_log[i].kind \in handlers}

\* handler invocations that were started and have not returned
InProgress == Cardinality(Dispatched) - Len(h_log)

\* C28: at most one handler invocation of a dispatcher is in progress, and the
\* loop receives the next event of any topic only after the handler awaited
\* for the current event has returned.
C28_HandlersSequential ==
    /\ [](InProgress \in {0, 1})
    /\ [][disp_log' # disp_log => InProgress = 0]_vars

C28_Witness ==
    /\ InProgress = 1
    /\ disp_pc = "publishing"
    /\ Len(h_log) >= 1
    /\ queue["order"] # <<>>
    /\ queue["signal"] # <<>>

----------------------------------------------------------------------------
(* C29 *)

\* the most recent result of evaluate
LastResult == sb_results[Len(sb_results)]

\* an evaluate call has just returned a decision
DecisionReturned ==
    /\ sb_pc # "running"
    /\ sb_results # <<>>
    /\ LastResult.kind = "Ok"

\* C29: a decision returned by a successful evaluate call holds exactly the
\* signals the module emitted during that call, in emission order, and the
\* host-side buffers are empty when it returns, whatever the outcome of the
\* earlier calls on the instance (success, trap after emit_signal, timeout).
C29_DecisionHoldsThisCall ==
    DecisionReturned =>
        /\ [k \in Indices(LastResult.signals) |-> LastResult.signals[k].label] = sb_emitted
        /\ sb_signals = <<>>
        /\ sb_logs = <<>>

----------------------------------------------------------------------------
(* C30 *)

\* C30: when emit_signal is called with bytes that do not decode, no signal is
\* appended to the buffer and the evaluate call fails with the Serialization
\* error kind, which is not the kind reported for a module trap.
C30_BadSignalIsSerializationError ==
    /\ [](sb_cause = "bad_signal" => LastResult.kind = "Serialization")
    /\ [](sb_cause = "trap" => LastResult.kind # "Serialization")
    /\ [][(sb_results' # sb_results /\ sb_cause' = "bad_signal")
            => sb_signals' = sb_signals]_vars

----------------------------------------------------------------------------
(* C31 *)

\* C31: once run has ended with an error, the shutdown flag shared with the
\* controller handles is set, so that is_shutdown() answers true.
C31_ErrorExitSetsShutdown == disp_pc = "done_err" => shutdown_flag

----------------------------------------------------------------------------
(* C32 *)

\* the events the market topic accepted from drain, in the order of acceptance
MarketAccepted == SelectSeq(dist_log, LAMBDA d : d.result = Ok)

\* C32: drain dispatches the events of its input channel in the order received,
\* one publish per event, and the market topic holds the accepted ones in that
\* order; a failed publish is the last one and drain has returned after it, for
\* good; without a failed publish drain has returned only if the input channel
\* is closed and empty.
C32_DrainInOrderUntilFailure ==
    /\ [](/\ \A i \in Indices(dist_log) :
                /\ dist_log[i].ev.seq = i
                /\ dist_log[i].result # Ok => i = Len(dist_log) /\ dist_pc = "returned"
          /\ ext_log["r1"] \o queue["market"] =
                [i \in Indices(MarketAccepted) |-> MarketAccepted[i].ev]
          /\ (dist_pc = "returned" /\ Len(MarketAccepted) = Len(dist_log)) =>
                (~dist_open /\ dist_in = <<>>))
    /\ [][dist_pc = "returned" => UNCHANGED <<dist_pc, dist_log, dist_in>>]_vars

C32_Witness ==
    /\ dist_pc = "returned"
    /\ Len(dist_log) = 2
    /\ dist_log[1].result = Ok
    /\ dist_log[2].result # Ok
    /\ dist_in # <<>>

----------------------------------------------------------------------------
(* C33 *)

\* C33: with publish mode Try, a dispatch refused because the market topic is
\* full does not end the distributor: drain has not returned because of it.
C33_TryFullContinues ==
    (dist_mode = Try /\ \E i \in Indices(dist_log) :
                            dist_log[i].result = from_try_send_error("Full"))
        => dist_pc # "returned"

----------------------------------------------------------------------------
(* C34 *)

\* the level a side holds at a price: its size, or None
LevelAt(side, p) == IF p \in DOMAIN side THEN side[p] ELSE None

\* C34: no side of the book ever holds a level of size zero, and an apply
\* leaves the side the update does not name, and every other price of the side
\* it names, as they were.
C34_NoZeroLevelLocalUpdate ==
    /\ [](\A p \in DOMAIN ob_bids : ob_bids[p] # 0)
    /\ [](\A p \in DOMAIN ob_asks : ob_asks[p] # 0)
    /\ [][/\ ob_upd'.side = "Buy" => ob_asks' = ob_asks
          /\ ob_upd'.side = "Sell" => ob_bids' = ob_bids
          /\ \A p \in Prices \ {ob_upd'.price} :
                /\ LevelAt(ob_bids', p) = LevelAt(ob_bids, p)
                /\ LevelAt(ob_asks', p) = LevelAt(ob_asks, p)]_vars

C34_Witness ==
    /\ ob_upd.side = "Sell"
    /\ ob_upd.quantity = 0
    /\ ob_upd.price = 2
    /\ ob_asks = (1 :> 1) @@ (3 :> 2)
    /\ ob_bids = (2 :> 2)

----------------------------------------------------------------------------
(* C35 *)

\* min(initial * multiplier^(k-1), max), and initial for k = 0
BaseDelay(cfg, k) ==
    LET d == cfg.initial * powi(cfg.multiplier, IF k = 0 THEN 0 ELSE k - 1)
    IN  IF d > cfg.max THEN cfg.max ELSE d

\* the worker leaves the check of the consumer with the consumer there
BeforeBackoff == ws_pc = "closed_check" /\ ws_pc' # "closed_check" /\ ~IsClosed(ws_rx)

\* C35: a successful connection resets the attempt counter and a failed attempt
\* adds one to it; the worker then sleeps initial (plus jitter) after a lost
\* connection, and min(initial * multiplier^(k-1), max) (plus jitter) after k
\* failed attempts in a row, for every k.
C35_BackoffFollowsFailures ==
    [][/\ (ws_pc = "connect" /\ ws_pc' = "select") => ws_attempt' = 0
       /\ (ws_pc = "connect" /\ ws_pc' = "closed_check") => ws_attempt' = ws_attempt + 1
       /\ BeforeBackoff =>
            /\ ws_pc' = "sleep"
            /\ \E noise \in Noises(ws_cfg.backoff) :
                  ws_sleep_left' = BaseDelay(ws_cfg.backoff, ws_attempt) + noise]_vars

----------------------------------------------------------------------------
(* C36 *)

\* the payloads of the frames of a kind, in order
PayloadsOf(frames, kind) ==
    LET of == SelectSeq(frames, LAMBDA f : f.kind = kind)
    IN  [i \in 1..Len(of) |-> of[i].payload]

\* the frames handed to ws_stream.send on this connection, in order
SentFrames == [i \in 1..Len(ws_out) |-> ws_out[i].frame]

\* q begins with p
IsPrefix(p, q) == Len(p) <= Len(q) /\ SubSeq(q, 1, Len(p)) = p

----------------------------------------------------------------------------
(* C37 *)

\* every subscription frame of on_connect went out on this connection, in order
Subscribed ==
    /\ Len(ws_out) >= Len(on_connect)
    /\ \A i \in 1..Len(on_connect) : ws_out[i] = SendCall(on_connect[i], TRUE)

\* C37: while the worker reads a connection, and whenever the consumer has got
\* an event of it, all subscription frames of on_connect have been sent on that
\* connection, in order and before anything else.
C37_SubscribedBeforeReading == (ws_pc = "select" \/ ws_events # <<>>) => Subscribed

----------------------------------------------------------------------------
(* C38 *)

\* the events of the handle calls whose publish was accepted, in order
TicksAccepted == SelectSeq(sh_log, LAMBDA h : h.published # <<>> /\ h.result = Ok)

\* C38: a handle call for a Tick makes exactly one publish, of a market event
\* with that tick, priority High and source exchange.<venue>, and one event per
\* accepted publish is on the market topic; a call for an Error makes none and
\* returns the upstream error; a call for any other message, OrderUpdate
\* included, makes none and returns Ok.
C38_OnlyTicksPublished ==
    /\ \A i \in Indices(sh_log) :
          LET h == sh_log[i]
          IN  /\ h.message.kind = "Tick" =>
                    /\ Len(h.published) = 1
                    /\ h.published[1].kind = "market"
                    /\ h.published[1].prio = "High"
                    /\ h.published[1].src = ExchangeSource(sh_exchange)
                    /\ h.published[1].body.tick = h.message.symbol
              /\ h.message.kind = "Error" =>
                    h.published = <<>> /\ h.result = Upstream(h.message.text)
              /\ h.message.kind \notin {"Tick", "Error"} =>
                    h.published = <<>> /\ h.result = Ok
    /\ ext_log["r1"] \o queue["market"] =
          [i \in Indices(TicksAccepted) |-> TicksAccepted[i].published[1]]

C38_Witness ==
    /\ Len(sh_log) = 3
    /\ sh_log[1].message.kind = "OrderUpdate"
    /\ sh_log[2].message.kind = "Tick"
    /\ sh_log[2].result = Ok
    /\ sh_log[3].message.kind = "Error"
    /\ Len(queue["market"]) = 1

----------------------------------------------------------------------------
(* C39 *)

\* C39: whenever the Coinbase worker is about to connect again, it has, since
\* its last connection attempt, found the subscriber's channel open and slept
\* the backoff delay.
C39_ReconnectAfterCheckAndBackoff ==
    (cb_pc = "connect" /\ cb_connects > 0) =>
        /\ Len(cb_since) = 2
        /\ cb_since[1].step = "check"
        /\ cb_since[2].step = "sleep"
        /\ cb_since[2].delay > 0

====
